---- MODULE Spec2Model ----
(***************************************************************************)
(* The trading engine of backend/trading_engine.py as a state machine:     *)
(* the lifecycle calls start() and stop(), the tick driver (_main_loop and *)
(* _tick) cut at its await points, the controllers it runs, and the broker *)
(* (MetaTrader 5 terminal) and the clock as the environment.               *)
(*                                                                         *)
(* Prices are in pips (0.1 price units), so the code's                     *)
(* (current - entry_price) * 10 is the difference of two stored prices.    *)
(* A timestamp field (_last_sl_hit, _last_entry_check,                     *)
(* _last_guardian_check) holds the seconds elapsed since it was set, which *)
(* is all the code ever reads of it (datetime.now() - field); the clock    *)
(* ages the fields and None is the unset field.                            *)
(***************************************************************************)
EXTENDS Integers, Sequences, FiniteSets, TLC

\* ------------------------------------------------------------------ bounds
MaxTasks == 2         \* driver tasks that exist at the same time
MaxCalls == 2         \* start()/stop() calls suspended at an await at the same time
MaxTickets == 4       \* tickets the broker issues in one run
MaxExternal == 2      \* positions opened at the broker by someone else than the engine
MaxActs == 1          \* guardian decisions other than HOLD in one run
AveragingTicks == 1   \* ticks of a run in which the guardian acts
MaxTicks == 2         \* ticks the drivers begin in one run
LadderTicks == 4      \* ticks of a run under a held price
MaxDoublings == 6     \* times the balance can have doubled
MaxReports == 2       \* close events counted for one ticket
ClockStep == 150      \* seconds the clock advances in one step

\* ------------------------------------------------------- program constants
None == -1
_guardian_interval == 5
_entry_interval == 15
_sl_cooldown_minutes == 5
max_positions == 3
auto_bep_pips == 5
DCA_PIPS == 20
MaxSLDistance == 6
PipsPerUnit == 10
MinConfidence == 60
auto_bep_enabled == TRUE
session_filter_enabled == FALSE

\* ------------------------------------------------------------ environment
\* The quotes the broker can show: bid and ask in pips.
Quotes ==
  { [bid |-> 25000, ask |-> 25000],
    [bid |-> 25040, ask |-> 25042] }

Sides == {"BUY", "SELL"}

\* The runs explored. "operator": the operator calls start() and stop() at
\* will and the market opens and closes, over an empty book. "closures":
\* positions are opened and closed by others and the price moves, under an
\* engine that is started and left running and a guardian that holds.
\* "averaging": positions are opened by others and the price moves, under an
\* engine that is started, perhaps stopped in the middle of its tick, and a
\* guardian that acts. "gated": the session filter is on, the market opens
\* and closes and the hour enters and leaves the allowed sessions, positions
\* are opened by others and the price moves, under an engine that is started
\* and left running and a guardian that holds.
Scopes == {"operator", "closures", "averaging", "gated"}

\* The stop-loss an order placed by someone else can carry (0: none), as a
\* distance in pips on the losing side of the open price.
ExternalStops == {0, 60}

Min(a, b) == IF a <= b THEN a ELSE b
Abs(a) == IF a >= 0 THEN a ELSE 0 - a

Range(s) == {s[i] : i \in 1..Len(s)}

\* The tickets of a list of positions, in the list's order.
TicketsOf(ps) == [i \in 1..Len(ps) |-> ps[i].ticket]

RECURSIVE SeqOfSet(_)
\* The numbers of a set in increasing order.
SeqOfSet(S) ==
  IF S = {} THEN <<>>
  ELSE LET m == CHOOSE x \in S : \A y \in S : x <= y
       IN <<m>> \o SeqOfSet(S \ {m})

RECURSIVE Without(_, _)
\* The list ps without the position of ticket k.
Without(ps, k) ==
  IF ps = <<>> THEN <<>>
  ELSE IF Head(ps).ticket = k THEN Without(Tail(ps), k)
       ELSE <<Head(ps)>> \o Without(Tail(ps), k)

VARIABLES
  _running,              \* TradingEngine._running
  is_running,            \* AppConfig.is_running
  _task,                 \* TradingEngine._task: a task id, 0 for None
  _last_entry_check,     \* seconds since the last completed entry check, or None
  _last_guardian_check,  \* seconds since the last guardian cycle, or None
  _last_sl_hit,          \* seconds since the last detected stop-loss closure, or None
  _previous_positions,   \* dict ticket -> position record of the last detector run
  tasks,                 \* the driver tasks: where each stands and its locals
  calls,                 \* the start()/stop() calls suspended at an await
  positions,             \* the broker: the open positions, oldest first
  quote,                 \* the broker: the current bid and ask
  next_ticket,           \* the broker: the next ticket it issues
  market_open,           \* the broker: whether the symbol can be traded
  session_allowed,       \* whether the present UTC hour is in an allowed session
  externals,             \* how many positions others have opened so far
  scope,                 \* what the environment does in this run
  ticks,                 \* how many ticks the drivers have begun so far
  acts,                  \* how many guardian decisions other than HOLD so far
  since_sl,              \* history: seconds since the detector last reported SL_HIT, or None
  close_events,          \* history: how many close events each ticket has had so far
  ev                     \* what the last step did that others can see

vars ==
  << _running, is_running, _task, _last_entry_check, _last_guardian_check,
     _last_sl_hit, _previous_positions, tasks, calls, positions, quote,
     next_ticket, market_open, session_allowed, externals, scope, ticks, acts, since_sl,
     close_events, ev >>

engineVars ==
  << _running, is_running, _task, _last_entry_check, _last_guardian_check,
     _last_sl_hit, _previous_positions >>

brokerVars == << positions, quote, next_ticket, market_open, session_allowed, externals >>

\* No ticket has had a close event.
NoCloseEvents == [k \in 1..MaxTickets |-> 0]

TaskIds == 1..MaxTasks
CallIds == 1..MaxCalls

\* -------------------------------------------------------------- the broker
\* The profit the broker reports for a position at a quote: the distance the
\* price has moved in the position's favour.
ProfitAt(p, q) ==
  IF p.type = "BUY" THEN q.bid - p.open_price ELSE p.open_price - q.ask

\* MT5Client.get_positions: the broker's positions as the dicts the engine
\* reads, with the profit of the moment.
get_positions ==
  [i \in 1..Len(positions) |->
     [ticket |-> positions[i].ticket, type |-> positions[i].type,
      open_price |-> positions[i].open_price, sl |-> positions[i].sl,
      tp |-> positions[i].tp, profit |-> ProfitAt(positions[i], quote)]]

\* Whether a value of an optional request field is truthy in Python.
Truthy(x) == x # None /\ x # 0

\* MT5Client.place_order: the request's "sl"/"tp" is set only when the
\* argument is truthy; 0 is the broker's "no stop".
RequestStop(x) == IF Truthy(x) THEN x ELSE 0

\* The position the broker opens for an accepted market order.
Opened(side, sl, tp) ==
  [ticket |-> next_ticket, type |-> side,
   open_price |-> IF side = "BUY" THEN quote.ask ELSE quote.bid,
   sl |-> RequestStop(sl), tp |-> RequestStop(tp)]

\* Whether the broker can accept one more order in this run.
CanOpen == next_ticket <= MaxTickets

HasTicket(k) == \E i \in 1..Len(positions) : positions[i].ticket = k

\* MT5Client.modify_position: an omitted (falsy) field keeps the broker's
\* current value.
Modified(ps, k, sl, tp) ==
  [i \in 1..Len(ps) |->
     IF ps[i].ticket = k
     THEN [ps[i] EXCEPT !.sl = IF Truthy(sl) THEN sl ELSE ps[i].sl,
                        !.tp = IF Truthy(tp) THEN tp ELSE ps[i].tp]
     ELSE ps[i]]

\* ---------------------------------------------------------------- the clock
Aged(x, cap) == IF x = None THEN None ELSE Min(x + ClockStep, cap)

cooldown_seconds == _sl_cooldown_minutes * 60
entry_seconds == _entry_interval * 60
guardian_seconds == _guardian_interval * 60

\* ---------------------------------------------------------------- the tasks
\* A task that is not suspended at an await runs on the event loop, and no
\* other coroutine runs until it reaches its next await.
SyncPCs == {"detect", "gates", "bep", "guardian", "dca", "entry"}

NoTask ==
  [pc |-> "none", price |-> [bid |-> 0, ask |-> 0], snap |-> <<>>,
   todo |-> <<>>, cur |-> 0, seen |-> {}, reported |-> {}, idx |-> 0,
   placed |-> 0]

NoCall == [op |-> "none", pc |-> "none", tsk |-> 0]

Alive(t) == tasks[t].pc # "none"
OnLoop(t) == tasks[t].pc \in SyncPCs
LoopFree == \A t \in TaskIds : ~OnLoop(t)

NoEvent == [op |-> "none"]

Init ==
  /\ _running = FALSE
  /\ is_running = FALSE
  /\ _task = 0
  /\ _last_entry_check = None
  /\ _last_guardian_check = None
  /\ _last_sl_hit = None
  /\ _previous_positions = << >>
  /\ tasks = [t \in TaskIds |-> NoTask]
  /\ calls = [c \in CallIds |-> NoCall]
  /\ positions = << >>
  /\ quote \in Quotes
  /\ next_ticket = 1
  /\ market_open = TRUE
  /\ session_allowed = TRUE
  /\ externals = 0
  /\ scope \in Scopes
  /\ ticks = 0
  /\ acts = 0
  /\ since_sl = None
  /\ close_events = NoCloseEvents
  /\ ev = NoEvent

\* ---------------------------------------------------------- the environment
\* The runs in which the operator starts and stops the engine at will.
Operated == scope \in {"operator", "reporting"}

\* A driver is inside a tick, at an await.
InTick(t) == tasks[t].pc \notin {"none", "new", "sleep", "cancelling"}

\* The ticks of one run.
TickBudget ==
  IF scope = "averaging" THEN AveragingTicks
  ELSE IF scope = "ladder" THEN LadderTicks
  ELSE MaxTicks

\* The book and the quote change between the ticks, as long as a tick is still
\* to come.
Between ==
  /\ scope # "operator"
  /\ ticks < TickBudget
  /\ \A t \in TaskIds : ~InTick(t)

\* Time passes between the ticks and while a tick waits for the decision
\* service or for a notification, as long as a tick can still see it; a
\* synchronous section of the engine and a broadcast to the connected clients
\* take no time.
Timed ==
  /\ LoopFree
  /\ \A t \in TaskIds : tasks[t].pc \notin {"bc_price", "bc_positions"}
  /\ ticks < TickBudget \/ \E t \in TaskIds : InTick(t)

\* The price moves.
PriceMove ==
  /\ Between
  /\ \E q \in Quotes \ {quote} : quote' = q
  /\ ev' = NoEvent
  /\ UNCHANGED << engineVars, tasks, calls, positions,
                  next_ticket, market_open, session_allowed, externals, scope, ticks, acts, since_sl, close_events >>

\* Someone else (the /api/order endpoint, the terminal) opens a position.
ExternalOpen ==
  /\ Between
  /\ externals < MaxExternal
  /\ CanOpen
  /\ \E side \in Sides, dsl \in ExternalStops :
       LET open == IF side = "BUY" THEN quote.ask ELSE quote.bid
           sl == IF dsl = 0 THEN 0
                 ELSE IF side = "BUY" THEN open - dsl ELSE open + dsl
       IN positions' = Append(positions, Opened(side, sl, 0))
  /\ next_ticket' = next_ticket + 1
  /\ externals' = externals + 1
  /\ ev' = NoEvent
  /\ UNCHANGED << engineVars, tasks, calls, quote, market_open, session_allowed, scope, ticks, acts, since_sl, close_events >>

\* A position leaves the broker: its stop-loss or take-profit was hit, or it
\* was closed by hand.
BrokerClose ==
  /\ Between
  /\ scope \in {"closures", "reporting"}
  /\ \E i \in 1..Len(positions) :
       positions' = Without(positions, positions[i].ticket)
  /\ ev' = NoEvent
  /\ UNCHANGED << engineVars, tasks, calls, quote, next_ticket, market_open, session_allowed,
                  externals, scope, ticks, acts, since_sl, close_events >>

\* The market opens or closes.
MarketToggle ==
  /\ \/ Timed /\ scope = "operator"
     \/ Between /\ scope = "gated"
  /\ market_open' = ~market_open
  /\ ev' = NoEvent
  /\ UNCHANGED << engineVars, tasks, calls, positions, quote, next_ticket,
                  session_allowed, externals, scope, ticks, acts, since_sl, close_events >>

\* The hour enters or leaves the allowed sessions.
SessionToggle ==
  /\ Between
  /\ scope = "gated"
  /\ session_allowed' = ~session_allowed
  /\ ev' = NoEvent
  /\ UNCHANGED << engineVars, tasks, calls, positions, quote, next_ticket,
                  market_open, externals, scope, ticks, acts, since_sl, close_events >>

\* Time passes.
Clock ==
  /\ Timed
  /\ _last_sl_hit' = Aged(_last_sl_hit, cooldown_seconds)
  /\ since_sl' = Aged(since_sl, cooldown_seconds)
  /\ _last_entry_check' = Aged(_last_entry_check, entry_seconds)
  /\ _last_guardian_check' = Aged(_last_guardian_check, guardian_seconds)
  /\ ev' = NoEvent
  /\ UNCHANGED << _running, is_running, _task, _previous_positions, tasks,
                  calls, brokerVars, scope, ticks, acts, close_events >>

\* ------------------------------------------------------------ the lifecycle
FreeTask(t) == tasks[t].pc = "none" /\ \A u \in TaskIds : u < t => Alive(u)
FreeCall(c) == calls[c].op = "none" /\ \A d \in CallIds : d < c => calls[d].op # "none"

\* A start() that tests nothing.
start_never_refused == FALSE

\* TradingEngine.start, its first test: a running engine refuses.
start_refused == _running

\* TradingEngine.stop, its first test: a stopped engine refuses.
stop_refused == ~_running

\* start() while running: a failure, nothing touched.
StartRefused ==
  /\ LoopFree
  /\ Operated
  /\ start_refused
  /\ ev' = [op |-> "start", ok |-> FALSE, error |-> "Engine already running"]
  /\ UNCHANGED << engineVars, tasks, calls, brokerVars, scope, ticks, acts, since_sl, close_events >>

\* start() without a connected MT5 client: a failure, nothing touched.
StartNotConnected ==
  /\ LoopFree
  /\ Operated
  /\ ~start_refused
  /\ ev' = [op |-> "start", ok |-> FALSE,
            error |-> "MT5 not connected. Please connect first."]
  /\ UNCHANGED << engineVars, tasks, calls, brokerVars, scope, ticks, acts, since_sl, close_events >>

\* start() on a stopped engine, up to its await of the status broadcast: the
\* flags are set and the driver task is created.
StartAccepted ==
  /\ LoopFree
  /\ ~start_refused
  /\ ~Operated => ticks = 0
  /\ \E t \in TaskIds, c \in CallIds :
       /\ FreeTask(t)
       /\ FreeCall(c)
       /\ _task' = t
       /\ tasks' = [tasks EXCEPT ![t] = [NoTask EXCEPT !.pc = "new"]]
       /\ calls' = [calls EXCEPT ![c] = [op |-> "start", pc |-> "bcast", tsk |-> 0]]
       /\ ev' = [op |-> "create_task", task |-> t]
  /\ _running' = TRUE
  /\ is_running' = TRUE
  /\ UNCHANGED << _last_entry_check, _last_guardian_check, _last_sl_hit,
                  _previous_positions, brokerVars, scope, ticks, acts, since_sl, close_events >>

\* start() resumes after the broadcast and returns success.
StartReturn ==
  /\ LoopFree
  /\ \E c \in CallIds :
       /\ calls[c].op = "start"
       /\ calls' = [calls EXCEPT ![c] = NoCall]
  /\ ev' = [op |-> "start", ok |-> TRUE, error |-> ""]
  /\ UNCHANGED << engineVars, tasks, brokerVars, scope, ticks, acts, since_sl, close_events >>

\* stop() while stopped: a failure, nothing touched.
StopRefused ==
  /\ LoopFree
  /\ Operated
  /\ stop_refused
  /\ ev' = [op |-> "stop", ok |-> FALSE, error |-> "Engine not running"]
  /\ UNCHANGED << engineVars, tasks, calls, brokerVars, scope, ticks, acts, since_sl, close_events >>

\* A cancel() that the task does not notice.
cancel_ignored(task) == task

\* self._task.cancel(): the task, wherever it is suspended, is resumed next
\* with CancelledError.
cancel(task) == [NoTask EXCEPT !.pc = "cancelling"]

\* stop() on a running engine, up to its first await: the flags are cleared
\* and the driver task is cancelled; the call then awaits the task, or, the
\* task being done already, the status broadcast. The operator stops the
\* engine at will; under a guardian that acts, in the middle of a tick.
StopAccepted ==
  /\ LoopFree
  /\ \/ Operated
     \/ scope = "averaging" /\ \E t \in TaskIds : InTick(t)
  /\ ~stop_refused
  /\ \E c \in CallIds :
       /\ FreeCall(c)
       /\ IF _task # 0 /\ Alive(_task)
          THEN /\ tasks' = [tasks EXCEPT ![_task] = cancel(@)]
               /\ calls' = [calls EXCEPT ![c] =
                              [op |-> "stop", pc |-> "await_task", tsk |-> _task]]
          ELSE /\ tasks' = tasks
               /\ calls' = [calls EXCEPT ![c] =
                              [op |-> "stop", pc |-> "bcast", tsk |-> 0]]
  /\ _running' = FALSE
  /\ is_running' = FALSE
  /\ ev' = [op |-> "cancel", task |-> _task,
            at |-> IF _task # 0 THEN tasks[_task].pc ELSE "none"]
  /\ UNCHANGED << _task, _last_entry_check, _last_guardian_check,
                  _last_sl_hit, _previous_positions, brokerVars, scope, ticks, acts, since_sl, close_events >>

\* stop() resumes after the broadcast and returns success.
StopReturn ==
  /\ LoopFree
  /\ \E c \in CallIds :
       /\ calls[c].op = "stop"
       /\ calls[c].pc = "bcast"
       /\ calls' = [calls EXCEPT ![c] = NoCall]
  /\ ev' = [op |-> "stop", ok |-> TRUE, error |-> ""]
  /\ UNCHANGED << engineVars, tasks, brokerVars, scope, ticks, acts, since_sl, close_events >>

\* The calls once task t is done: a stop() that awaited it goes on to its
\* status broadcast.
Released(t) ==
  [c \in CallIds |->
     IF calls[c].pc = "await_task" /\ calls[c].tsk = t
     THEN [calls[c] EXCEPT !.pc = "bcast", !.tsk = 0]
     ELSE calls[c]]

\* A cancelled driver is resumed with CancelledError: inside _tick the loop
\* breaks, inside the sleep the error leaves _main_loop; the task is done.
Cancelled(t) ==
  /\ LoopFree
  /\ tasks[t].pc = "cancelling"
  /\ tasks' = [tasks EXCEPT ![t] = NoTask]
  /\ calls' = Released(t)
  /\ ev' = NoEvent
  /\ UNCHANGED << engineVars, brokerVars, scope, ticks, acts, since_sl, close_events >>

\* ------------------------------------------------------------ the tick driver
Resumable(t, pc) == LoopFree /\ tasks[t].pc = pc

\* A driver that ends with its tick.
AsleepForGood(t) == NoTask

\* The tick of task t is over: _main_loop sleeps.
Asleep(t) == [NoTask EXCEPT !.pc = "sleep"]

\* A tick that goes on without a price.
priced_anyway(ok, q) == [NoTask EXCEPT !.pc = "bc_price", !.price = q]

\* _tick, step 1: the driver after get_symbol_price answered (ok) or failed:
\* with the price q at the price broadcast, or out of the tick.
priced(ok, q) ==
  IF ok THEN [NoTask EXCEPT !.pc = "bc_price", !.price = q]
  ELSE [NoTask EXCEPT !.pc = "sleep"]

\* A driver that a failed price fetch ends.
TickBeginOrEnd(t) ==
  /\ LoopFree
  /\ ~Operated => \A c \in CallIds : calls[c].op = "none"
  /\ tasks[t].pc \in {"new", "sleep"}
  /\ IF ~_running
     THEN /\ tasks' = [tasks EXCEPT ![t] = NoTask]
          /\ calls' = Released(t)
          /\ ticks' = ticks
          /\ ev' = NoEvent
     ELSE /\ ticks < TickBudget
          /\ \E ok \in BOOLEAN :
               /\ tasks' = [tasks EXCEPT ![t] = IF ok THEN priced(ok, quote) ELSE NoTask]
               /\ ev' = [op |-> "price", ok |-> ok]
          /\ calls' = calls
          /\ ticks' = ticks + 1
  /\ UNCHANGED << engineVars, brokerVars, scope, acts, since_sl, close_events >>

\* _main_loop, the loop test after the task's first step or after the sleep
\* (whose 30 seconds are below the clock's resolution), and _tick up to the
\* price broadcast: a failed price fetch ends the tick. Under a moving market
\* the driver's first step comes after start() has returned.
TickBegin(t) ==
  /\ LoopFree
  /\ ~Operated => \A c \in CallIds : calls[c].op = "none"
  /\ tasks[t].pc \in {"new", "sleep"}
  /\ IF ~_running
     THEN /\ tasks' = [tasks EXCEPT ![t] = NoTask]
          /\ calls' = Released(t)
          /\ ticks' = ticks
          /\ ev' = NoEvent
     ELSE /\ ticks < TickBudget
          /\ \E ok \in BOOLEAN :
               /\ tasks' = [tasks EXCEPT ![t] = priced(ok, quote)]
               /\ ev' = [op |-> "price", ok |-> ok]
          /\ calls' = calls
          /\ ticks' = ticks + 1
  /\ UNCHANGED << engineVars, brokerVars, scope, acts, since_sl, close_events >>

\* A tick that ends when the account cannot be fetched.
account_required(account_ok, task) ==
  IF account_ok THEN task ELSE [NoTask EXCEPT !.pc = "sleep"]

\* _tick, step 2: the driver after get_account_info answered (account_ok) or
\* failed; only the broadcast of the account hangs on the answer.
account_fetched(account_ok, task) == task

\* _tick after the price broadcast: the account is fetched and, when that
\* succeeded, broadcast; the positions are fetched (an empty list when the
\* fetch fails) and broadcast.
FetchPositions(t) ==
  /\ Resumable(t, "bc_price")
  /\ \E account_ok \in BOOLEAN, ok \in BOOLEAN :
       /\ tasks' = [tasks EXCEPT ![t] =
                      account_fetched(account_ok,
                        [@ EXCEPT !.pc = "bc_positions",
                                  !.snap = IF ok THEN get_positions ELSE << >>,
                                  !.placed = 0])]
       /\ ev' = [op |-> "account", ok |-> account_ok, broadcast |-> account_ok,
                 fetched |-> ok]
  /\ UNCHANGED << engineVars, calls, brokerVars, scope, ticks, acts, since_sl, close_events >>

\* The tickets of the tracked positions that the snapshot no longer holds, in
\* the dict's order (tickets are issued in increasing order and recorded in
\* the broker's order, oldest first).
ClosedTickets(prev, snap) ==
  SeqOfSet(DOMAIN prev \ Range(TicketsOf(snap)))

\* The (ticket, prev_pos) items of list(self._previous_positions.items()) that
\* pass "ticket not in current_tickets": the records as they are at the start
\* of the run.
ClosedItems(prev, snap) ==
  LET ks == ClosedTickets(prev, snap)
  IN [i \in 1..Len(ks) |-> [ticket |-> ks[i], profit |-> prev[ks[i]].profit]]

\* _check_closed_positions starts: the tracked items are listed.
DetectStart(t) ==
  /\ Resumable(t, "bc_positions")
  /\ tasks' = [tasks EXCEPT ![t] =
                 [@ EXCEPT !.pc = "detect",
                           !.seen = DOMAIN _previous_positions,
                           !.todo = ClosedItems(_previous_positions, tasks[t].snap)]]
  /\ ev' = NoEvent
  /\ UNCHANGED << engineVars, calls, brokerVars, scope, ticks, acts, since_sl, close_events >>

\* A close type that counts a profit of exactly 0 as a loss.
close_type_strict(profit) == IF profit > 0 THEN "TP_HIT" ELSE "SL_HIT"

\* The close type inferred from the last known profit.
close_type_of(profit) == IF profit >= 0 THEN "TP_HIT" ELSE "SL_HIT"

\* A tracking dict that never takes the snapshot.
TrackedNothing(prev, snap) == prev

\* The tracking dict after the detector's last loop: every position of the
\* snapshot is recorded under its ticket.
Tracked(prev, snap) ==
  [k \in DOMAIN prev \union Range(TicketsOf(snap)) |->
     IF \E i \in 1..Len(snap) : snap[i].ticket = k
     THEN snap[CHOOSE i \in 1..Len(snap) : snap[i].ticket = k]
     ELSE prev[k]]

\* The tracking dict after "del self._previous_positions[ticket]".
Untracked(prev, k) == [j \in DOMAIN prev \ {k} |-> prev[j]]

\* A cooldown that is armed only when no window is open.
sl_hit_kept(last) == IF last = None THEN 0 ELSE last

\* "self._last_sl_hit = datetime.now()": the field, whatever it held, is the
\* present moment.
sl_hit_now(last) == 0

\* One more close event for ticket k; the count stops at MaxReports.
CloseCounted(events, k) ==
  [events EXCEPT ![k] = IF @ < MaxReports THEN @ + 1 ELSE @]

\* _check_closed_positions finds the next closed ticket: the close type is
\* inferred, the cooldown is armed on SL_HIT, and the close event is sent.
DetectClosed(t) ==
  /\ tasks[t].pc = "detect"
  /\ tasks[t].todo # << >>
  /\ LET k == Head(tasks[t].todo).ticket
         profit == Head(tasks[t].todo).profit
     IN /\ _last_sl_hit' = IF close_type_of(profit) = "SL_HIT"
                           THEN sl_hit_now(_last_sl_hit) ELSE _last_sl_hit
        /\ since_sl' = IF profit < 0 THEN 0 ELSE since_sl
        /\ close_events' = CloseCounted(close_events, k)
        /\ ev' = [op |-> "closed", ticket |-> k, profit |-> profit,
                  close_type |-> close_type_of(profit),
                  window |-> _last_sl_hit]
        /\ tasks' = [tasks EXCEPT ![t] =
                       [@ EXCEPT !.pc = "det_emit", !.cur = k,
                                 !.reported = @ \union {k},
                                 !.todo = Tail(@)]]
  /\ UNCHANGED << _running, is_running, _task, _last_entry_check,
                  _last_guardian_check, _previous_positions, calls,
                  brokerVars, scope, ticks, acts >>

\* After the notification and the broadcast of a close event the ticket is
\* removed from the tracking dict; a ticket that is no longer there raises
\* KeyError, which ends the run without the update.
DetectEmitted(t) ==
  /\ Resumable(t, "det_emit")
  /\ IF tasks[t].cur \in DOMAIN _previous_positions
     THEN /\ _previous_positions' = Untracked(_previous_positions, tasks[t].cur)
          /\ tasks' = [tasks EXCEPT ![t] = [@ EXCEPT !.pc = "detect", !.cur = 0]]
     ELSE /\ _previous_positions' = _previous_positions
          /\ tasks' = [tasks EXCEPT ![t] =
                         [@ EXCEPT !.pc = "gates", !.cur = 0, !.todo = << >>,
                                   !.seen = {}, !.reported = {}]]
  /\ ev' = NoEvent
  /\ UNCHANGED << _running, is_running, _task, _last_entry_check,
                  _last_guardian_check, _last_sl_hit, calls, brokerVars,
                  scope, ticks, acts, since_sl, close_events >>

\* _check_closed_positions ends: the tracking dict takes the snapshot.
DetectUpdate(t) ==
  /\ tasks[t].pc = "detect"
  /\ tasks[t].todo = << >>
  /\ _previous_positions' = Tracked(_previous_positions, tasks[t].snap)
  /\ tasks' = [tasks EXCEPT ![t] = [@ EXCEPT !.pc = "gates"]]
  /\ ev' = NoEvent
  /\ UNCHANGED << _running, is_running, _task, _last_entry_check,
                  _last_guardian_check, _last_sl_hit, calls, brokerVars,
                  scope, ticks, acts, since_sl, close_events >>

\* config.trading.session_filter_enabled of the run: off by default, on in
\* the gated runs.
FilterOn == session_filter_enabled \/ scope = "gated"

\* A session gate that lets every tick pass.
SessionAlwaysAllowed == TRUE

\* _tick, step 5: the session gate lets the tick pass.
SessionAllowed == ~FilterOn \/ session_allowed

\* _tick, the market and session gates.
Gates(t) ==
  /\ tasks[t].pc = "gates"
  /\ tasks' = [tasks EXCEPT ![t] =
                 IF market_open /\ SessionAllowed
                 THEN [@ EXCEPT !.pc = "bep", !.idx = 1, !.seen = {},
                                !.reported = {}]
                 ELSE Asleep(t)]
  /\ ev' = [op |-> "gate", open |-> market_open /\ SessionAllowed]
  /\ UNCHANGED << engineVars, calls, brokerVars, scope, ticks, acts, since_sl, close_events >>

\* An Auto-BEP that also moves a stop that is already at the entry price.
BepDueAtEntry(p, price) ==
  IF p.type = "BUY"
  THEN price.bid - p.open_price >= auto_bep_pips /\ p.sl <= p.open_price
  ELSE p.open_price - price.ask >= auto_bep_pips /\ p.sl >= p.open_price

\* An Auto-BEP that looks at the profit alone.
BepDueAnyStop(p, price) ==
  IF p.type = "BUY"
  THEN price.bid - p.open_price >= auto_bep_pips
  ELSE p.open_price - price.ask >= auto_bep_pips

\* _check_auto_bep, the test of one position at the tick's price.
BepDue(p, price) ==
  IF p.type = "BUY"
  THEN price.bid - p.open_price >= auto_bep_pips /\ p.sl < p.open_price
  ELSE p.open_price - price.ask >= auto_bep_pips /\ p.sl > p.open_price

\* An Auto-BEP that waits for the guardian interval.
BepNextWhenGuardianDue(snap, price, i) ==
  LET due == {j \in i..Len(snap) : BepDue(snap[j], price)}
  IN IF /\ auto_bep_enabled
        /\ due # {}
        /\ (_last_guardian_check = None \/ _last_guardian_check >= guardian_seconds)
     THEN CHOOSE j \in due : \A m \in due : j <= m
     ELSE 0

\* The first position at or after index i that Auto-BEP has to modify, 0 when
\* there is none or the feature is off.
BepNext(snap, price, i) ==
  LET due == {j \in i..Len(snap) : BepDue(snap[j], price)}
  IN IF auto_bep_enabled /\ due # {}
     THEN CHOOSE j \in due : \A m \in due : j <= m
     ELSE 0

\* _check_auto_bep: the next position that is due gets its stop-loss moved to
\* its entry price; the broker may refuse.
Bep(t) ==
  /\ tasks[t].pc = "bep"
  /\ LET j == BepNext(tasks[t].snap, tasks[t].price, tasks[t].idx)
     IN IF j = 0
        THEN /\ tasks' = [tasks EXCEPT ![t] = [@ EXCEPT !.pc = "guardian", !.idx = 0]]
             /\ ev' = NoEvent
             /\ positions' = positions
        ELSE LET p == tasks[t].snap[j]
             IN \E ok \in BOOLEAN :
                  /\ ev' = [op |-> "modify", by |-> "bep", ticket |-> p.ticket,
                            sl |-> p.open_price, tp |-> p.tp,
                            ok |-> ok /\ HasTicket(p.ticket)]
                  /\ IF ok /\ HasTicket(p.ticket)
                     THEN /\ positions' = Modified(positions, p.ticket, p.open_price, p.tp)
                          /\ tasks' = [tasks EXCEPT ![t] =
                                         [@ EXCEPT !.pc = "bep_emit", !.idx = j]]
                     ELSE /\ positions' = positions
                          /\ tasks' = [tasks EXCEPT ![t] = [@ EXCEPT !.idx = j + 1]]
  /\ UNCHANGED << engineVars, calls, quote, next_ticket, market_open, session_allowed, externals, scope, ticks, acts, since_sl, close_events >>

\* After the broadcasts and the notification of a break-even move the loop
\* goes on with the next position.
BepEmitted(t) ==
  /\ Resumable(t, "bep_emit")
  /\ tasks' = [tasks EXCEPT ![t] = [@ EXCEPT !.pc = "bep", !.idx = @ + 1]]
  /\ ev' = NoEvent
  /\ UNCHANGED << engineVars, calls, brokerVars, scope, ticks, acts, since_sl, close_events >>

\* What the broker and the tick looked like when an order was sent: the event
\* of a place_order call by controller `by` of task t.
OrderEvent(t, by, side, volume, sl, tp, ok) ==
  [op |-> "place_order", by |-> by, side |-> side, volume |-> volume,
   sl |-> RequestStop(sl), tp |-> RequestStop(tp), ok |-> ok,
   count |-> Len(positions), snapshot |-> Len(tasks[t].snap),
   placed |-> tasks[t].placed, fetched |-> TRUE]

\* A guardian that is due in every tick.
_should_check_guardian_always == TRUE

\* _should_check_guardian
_should_check_guardian ==
  _last_guardian_check = None \/ _last_guardian_check >= guardian_seconds

\* _should_check_entry
_should_check_entry ==
  _last_entry_check = None \/ _last_entry_check >= entry_seconds

\* The runs in which the decision service answers the guardian with an action.
GuardianActs == scope \in {"averaging", "guarded"}

\* The stops a guardian decision can carry in new_sl and new_tp.
GuardianStops == {None, 24990}
GuardianTargets == {None, 25100}

\* _tick, the guardian cycle: when positions exist and the interval has
\* elapsed, one _run_guardian per position of the snapshot, each asking the
\* decision service; after the last one the cycle is stamped.
Guardian(t) ==
  /\ tasks[t].pc = "guardian"
  /\ LET i == tasks[t].idx
         n == Len(tasks[t].snap)
     IN IF i = 0 /\ ~(n > 0 /\ _should_check_guardian)
        THEN /\ tasks' = [tasks EXCEPT ![t] = [@ EXCEPT !.pc = "dca"]]
             /\ ev' = NoEvent
             /\ UNCHANGED _last_guardian_check
        ELSE IF i > n
        THEN /\ tasks' = [tasks EXCEPT ![t] = [@ EXCEPT !.pc = "dca", !.idx = 0]]
             /\ _last_guardian_check' = 0
             /\ ev' = NoEvent
        ELSE /\ tasks' = [tasks EXCEPT ![t] =
                            [@ EXCEPT !.pc = "g_ai", !.idx = IF i = 0 THEN 1 ELSE i]]
             /\ ev' = [op |-> "ai", kind |-> "guardian",
                       ticket |-> tasks[t].snap[IF i = 0 THEN 1 ELSE i].ticket]
             /\ UNCHANGED _last_guardian_check
  /\ UNCHANGED << _running, is_running, _task, _last_entry_check, _last_sl_hit,
                  _previous_positions, calls, brokerVars, scope, ticks, acts, since_sl, close_events >>

\* The position _run_guardian of task t is about.
Guarded(t) == tasks[t].snap[tasks[t].idx]

\* _run_guardian goes on with the next position of the snapshot.
GuardianOn(t) == [tasks[t] EXCEPT !.pc = "guardian", !.idx = @ + 1]

\* _run_guardian: the decision service failed, or the action is HOLD, absent
\* or unknown: nothing is done.
GuardianHold(t) ==
  /\ Resumable(t, "g_ai")
  /\ \E result \in {"error", "HOLD"} :
       ev' = [op |-> "guardian", action |-> result, ticket |-> Guarded(t).ticket]
  /\ tasks' = [tasks EXCEPT ![t] = GuardianOn(t)]
  /\ UNCHANGED << engineVars, calls, brokerVars, scope, ticks, acts, since_sl, close_events >>

\* _run_guardian, MODIFY_SL or MODIFY_TP: new_sl and new_tp of the decision
\* are both passed to modify_position.
GuardianModify(t) ==
  /\ Resumable(t, "g_ai")
  /\ GuardianActs
  /\ acts < MaxActs
  /\ acts' = acts + 1
  /\ \E action \in {"MODIFY_SL", "MODIFY_TP"}, new_sl \in GuardianStops,
        new_tp \in GuardianTargets, accepted \in BOOLEAN :
       LET k == Guarded(t).ticket
           ok == accepted /\ HasTicket(k)
       IN /\ ev' = [op |-> "modify", by |-> action, ticket |-> k,
                    sl |-> new_sl, tp |-> new_tp, ok |-> ok]
          /\ positions' = IF ok THEN Modified(positions, k, new_sl, new_tp)
                          ELSE positions
          /\ tasks' = [tasks EXCEPT ![t] =
                         IF ok THEN [@ EXCEPT !.pc = "g_emit"] ELSE GuardianOn(t)]
  /\ UNCHANGED << engineVars, calls, quote, next_ticket, market_open, session_allowed, externals, scope, ticks, since_sl, close_events >>

\* _run_guardian, CLOSE: the position is closed at the market.
GuardianClose(t) ==
  /\ Resumable(t, "g_ai")
  /\ GuardianActs
  /\ acts < MaxActs
  /\ acts' = acts + 1
  /\ \E accepted \in BOOLEAN :
       LET k == Guarded(t).ticket
           ok == accepted /\ HasTicket(k)
       IN /\ ev' = [op |-> "close", by |-> "guardian", ticket |-> k, ok |-> ok]
          /\ positions' = IF ok THEN Without(positions, k) ELSE positions
          /\ tasks' = [tasks EXCEPT ![t] =
                         IF ok THEN [@ EXCEPT !.pc = "g_emit"] ELSE GuardianOn(t)]
  /\ UNCHANGED << engineVars, calls, quote, next_ticket, market_open, session_allowed, externals, scope, ticks, since_sl, close_events >>

\* An ADD_DCA that still adds when the count is at the cap.
GuardianAddDcaUncapped(t) ==
  /\ Resumable(t, "g_ai")
  /\ GuardianActs
  /\ acts < MaxActs
  /\ acts' = acts + 1
  /\ \E fetched \in BOOLEAN, accepted \in BOOLEAN :
       LET p == Guarded(t)
           current == IF fetched THEN Len(positions) ELSE 0
           ok == accepted /\ CanOpen
       IN IF current <= max_positions
          THEN /\ ev' = [OrderEvent(t, "guardian", p.type, "base", p.sl, p.tp, ok)
                           EXCEPT !.fetched = fetched]
               /\ positions' = IF ok THEN Append(positions, Opened(p.type, p.sl, p.tp))
                               ELSE positions
               /\ next_ticket' = IF ok THEN next_ticket + 1 ELSE next_ticket
               /\ tasks' = [tasks EXCEPT ![t] =
                              IF ok THEN [@ EXCEPT !.pc = "g_emit", !.placed = @ + 1]
                              ELSE GuardianOn(t)]
          ELSE /\ ev' = [op |-> "guardian", action |-> "ADD_DCA skipped",
                         ticket |-> p.ticket]
               /\ tasks' = [tasks EXCEPT ![t] = GuardianOn(t)]
               /\ UNCHANGED << positions, next_ticket >>
  /\ UNCHANGED << engineVars, calls, quote, market_open, session_allowed, externals, scope, ticks, since_sl, close_events >>

\* _run_guardian, ADD_DCA: the positions are fetched again (an empty list when
\* the fetch fails) and, below the cap, one order of the guarded position's
\* side is placed at the base lot with its SL and TP.
GuardianAddDca(t) ==
  /\ Resumable(t, "g_ai")
  /\ GuardianActs
  /\ acts < MaxActs
  /\ acts' = acts + 1
  /\ \E fetched \in BOOLEAN, accepted \in BOOLEAN :
       LET p == Guarded(t)
           current == IF fetched THEN Len(positions) ELSE 0
           ok == accepted /\ CanOpen
       IN IF current < max_positions
          THEN /\ ev' = [OrderEvent(t, "guardian", p.type, "base", p.sl, p.tp, ok)
                           EXCEPT !.fetched = fetched]
               /\ positions' = IF ok THEN Append(positions, Opened(p.type, p.sl, p.tp))
                               ELSE positions
               /\ next_ticket' = IF ok THEN next_ticket + 1 ELSE next_ticket
               /\ tasks' = [tasks EXCEPT ![t] =
                              IF ok THEN [@ EXCEPT !.pc = "g_emit", !.placed = @ + 1]
                              ELSE GuardianOn(t)]
          ELSE /\ ev' = [op |-> "guardian", action |-> "ADD_DCA skipped",
                         ticket |-> p.ticket]
               /\ tasks' = [tasks EXCEPT ![t] = GuardianOn(t)]
               /\ UNCHANGED << positions, next_ticket >>
  /\ UNCHANGED << engineVars, calls, quote, market_open, session_allowed, externals, scope, ticks, since_sl, close_events >>

\* After the broadcast (and notification) of a guardian action the cycle goes
\* on with the next position.
GuardianEmitted(t) ==
  /\ Resumable(t, "g_emit")
  /\ tasks' = [tasks EXCEPT ![t] = GuardianOn(t)]
  /\ ev' = NoEvent
  /\ UNCHANGED << engineVars, calls, brokerVars, scope, ticks, acts, since_sl, close_events >>

\* A count that grows only with the displacement in the position's favour.
expected_in_profit(snap, price) ==
  LET first_position == snap[1]
      pips_profit == IF first_position.type = "BUY"
                     THEN price.bid - first_position.open_price
                     ELSE first_position.open_price - price.ask
      expected == IF pips_profit >= DCA_PIPS THEN 1 + (pips_profit \div DCA_PIPS)
                  ELSE 1
  IN Min(expected, max_positions)

\* _check_dca_averaging, the number of positions the displacement of the
\* price from the first position's entry asks for.
expected_positions(snap, price) ==
  LET first_position == snap[1]
      pips_profit == IF first_position.type = "BUY"
                     THEN price.bid - first_position.open_price
                     ELSE first_position.open_price - price.ask
      pips_moved == Abs(pips_profit)
      expected == IF pips_moved >= DCA_PIPS THEN 1 + (pips_moved \div DCA_PIPS)
                  ELSE 1
  IN Min(expected, max_positions)

\* A DCA controller that also adds when the count has reached what the
\* displacement asks for.
DcaDueAtCount(snap, price) ==
  /\ Len(snap) > 0
  /\ Len(snap) <= expected_positions(snap, price)

\* _tick, the test before _check_dca_averaging, and its own test: on the
\* tick's snapshot.
DcaDue(snap, price) ==
  /\ Len(snap) > 0
  /\ Len(snap) < max_positions
  /\ Len(snap) < expected_positions(snap, price)

\* A DCA controller that sends a rejected order again.
DcaRetrying(t) ==
  /\ tasks[t].pc = "dca"
  /\ IF DcaDue(tasks[t].snap, tasks[t].price)
     THEN \E accepted \in BOOLEAN :
            LET p == tasks[t].snap[1]
                ok == accepted /\ CanOpen
            IN /\ ev' = OrderEvent(t, "dca", p.type, "dynamic", p.sl, p.tp, ok)
               /\ positions' = IF ok THEN Append(positions, Opened(p.type, p.sl, p.tp))
                               ELSE positions
               /\ next_ticket' = IF ok THEN next_ticket + 1 ELSE next_ticket
               /\ tasks' = [tasks EXCEPT ![t] =
                              IF ok THEN [@ EXCEPT !.pc = "dca_emit", !.placed = @ + 1]
                              ELSE [@ EXCEPT !.pc = "dca"]]
     ELSE /\ tasks' = [tasks EXCEPT ![t] = [@ EXCEPT !.pc = "entry"]]
          /\ ev' = NoEvent
          /\ UNCHANGED << positions, next_ticket >>
  /\ UNCHANGED << engineVars, calls, quote, market_open, session_allowed, externals, scope, ticks, acts, since_sl, close_events >>

\* _check_dca_averaging: when the snapshot holds fewer positions than
\* expected, one order of the first position's side with its SL and TP at the
\* dynamic lot.
Dca(t) ==
  /\ tasks[t].pc = "dca"
  /\ IF DcaDue(tasks[t].snap, tasks[t].price)
     THEN \E accepted \in BOOLEAN :
            LET p == tasks[t].snap[1]
                ok == accepted /\ CanOpen
            IN /\ ev' = OrderEvent(t, "dca", p.type, "dynamic", p.sl, p.tp, ok)
               /\ positions' = IF ok THEN Append(positions, Opened(p.type, p.sl, p.tp))
                               ELSE positions
               /\ next_ticket' = IF ok THEN next_ticket + 1 ELSE next_ticket
               /\ tasks' = [tasks EXCEPT ![t] =
                              IF ok THEN [@ EXCEPT !.pc = "dca_emit", !.placed = @ + 1]
                              ELSE [@ EXCEPT !.pc = "entry"]]
     ELSE /\ tasks' = [tasks EXCEPT ![t] = [@ EXCEPT !.pc = "entry"]]
          /\ ev' = NoEvent
          /\ UNCHANGED << positions, next_ticket >>
  /\ UNCHANGED << engineVars, calls, quote, market_open, session_allowed, externals, scope, ticks, acts, since_sl, close_events >>

\* -------------------------------------------------------- the entry controller
\* MT5Client defines get_symbol_price, and no get_price: the call
\* self.mt5_client.get_price(symbol) of _run_entry raises AttributeError.
MT5Client_has_get_price == FALSE

\* A confidence test that lets every confidence pass.
confident_always(confidence) == confidence >= 0

\* _run_entry, "if confidence >= 60".
confident(confidence) == confidence >= MinConfidence

\* _run_entry, the stop-loss after the clamp at the quote q: sl is the
\* decision's "SL", None when null or absent.
ClampSL(decision, sl, q) ==
  IF decision = "BUY"
  THEN LET entry_price == q.ask
           max_sl == entry_price - MaxSLDistance * PipsPerUnit
       IN IF sl = None \/ sl < max_sl THEN max_sl ELSE sl
  ELSE LET entry_price == q.bid
           max_sl == entry_price + MaxSLDistance * PipsPerUnit
       IN IF sl = None \/ sl > max_sl THEN max_sl ELSE sl

\* The "sl" of the request that place_order builds for the entry order.
EntryStop(decision, sl, q) == RequestStop(ClampSL(decision, sl, q))

\* The "SL" a decision can carry, in pips: None for null or absent.
EntryStops == {None, 0}
Confidences == {59, 60}

\* What the decision service can return to _run_entry: an error, or a payload
\* whose decision is WAIT when absent and whose confidence is 0 when absent.
EntryResults ==
  [error : {TRUE}, decision : {"WAIT"}, confidence : {0}, SL : {None}]
  \union
  [error : {FALSE}, decision : {"WAIT"}, confidence : {0, 60}, SL : {None}]
  \union
  [error : {FALSE}, decision : Sides, confidence : {0} \union Confidences,
   SL : EntryStops]

\* _tick, step 8, and _run_entry up to the cooldown test: the controller is
\* not invoked when the snapshot holds positions or the entry interval has not
\* elapsed.
EntrySkip(t) ==
  /\ tasks[t].pc = "entry"
  /\ ~(Len(tasks[t].snap) = 0 /\ _should_check_entry)
  /\ tasks' = [tasks EXCEPT ![t] = Asleep(t)]
  /\ ev' = NoEvent
  /\ UNCHANGED << engineVars, calls, brokerVars, scope, ticks, acts, since_sl, close_events >>

\* A cooldown test that never finds the window open.
CooldownNeverBlocks == FALSE

\* _run_entry, the cooldown test: the window is open.
CooldownBlocks == _last_sl_hit # None /\ _last_sl_hit < cooldown_seconds

\* _run_entry inside the cooldown window: it returns at once.
EntryBlocked(t) ==
  /\ tasks[t].pc = "entry"
  /\ Len(tasks[t].snap) = 0 /\ _should_check_entry
  /\ CooldownBlocks
  /\ ev' = [op |-> "cooldown"]
  /\ tasks' = [tasks EXCEPT ![t] = Asleep(t)]
  /\ UNCHANGED << engineVars, calls, brokerVars, scope, ticks, acts, since_sl, close_events >>

\* _run_entry outside the cooldown window: an expired window is cleared and
\* the decision service is asked.
EntryRequest(t) ==
  /\ tasks[t].pc = "entry"
  /\ Len(tasks[t].snap) = 0 /\ _should_check_entry
  /\ ~CooldownBlocks
  /\ _last_sl_hit' = None
  /\ ev' = [op |-> "ai", kind |-> "entry", ticket |-> 0]
  /\ tasks' = [tasks EXCEPT ![t] = [@ EXCEPT !.pc = "e_ai"]]
  /\ UNCHANGED << _running, is_running, _task, _last_entry_check,
                  _last_guardian_check, _previous_positions, calls, brokerVars, scope, ticks, acts, since_sl, close_events >>

\* What _run_entry did with a result.
EntryEvent(r, snapshot, outcome, sl) ==
  [op |-> "entry", outcome |-> outcome, error |-> r.error,
   decision |-> r.decision, confidence |-> r.confidence, SL |-> r.SL,
   sl |-> sl, bid |-> quote.bid, ask |-> quote.ask, snapshot |-> snapshot]

\* _run_entry with the decision service's result: an error returns; WAIT or a
\* low confidence stamps the check; otherwise the order is prepared, where
\* the price lookup raises, which the handler logs: no order, no stamp.
EntryDecide(t) ==
  /\ Resumable(t, "e_ai")
  /\ \E r \in EntryResults :
       IF r.error
       THEN /\ ev' = EntryEvent(r, Len(tasks[t].snap), "error", None)
            /\ tasks' = [tasks EXCEPT ![t] = Asleep(t)]
            /\ UNCHANGED << _last_entry_check, positions, next_ticket >>
       ELSE IF ~(r.decision \in {"BUY", "SELL"} /\ confident(r.confidence))
       THEN /\ ev' = EntryEvent(r, Len(tasks[t].snap), "declined", None)
            /\ _last_entry_check' = 0
            /\ tasks' = [tasks EXCEPT ![t] = Asleep(t)]
            /\ UNCHANGED << positions, next_ticket >>
       ELSE IF ~MT5Client_has_get_price
       THEN /\ ev' = EntryEvent(r, Len(tasks[t].snap), "raised", None)
            /\ tasks' = [tasks EXCEPT ![t] = Asleep(t)]
            /\ UNCHANGED << _last_entry_check, positions, next_ticket >>
       ELSE \E accepted \in BOOLEAN :
              LET sl == ClampSL(r.decision, r.SL, quote)
                  ok == accepted /\ CanOpen
              IN /\ ev' = EntryEvent(r, Len(tasks[t].snap),
                                     IF ok THEN "placed" ELSE "rejected",
                                     EntryStop(r.decision, r.SL, quote))
                 /\ positions' = IF ok THEN Append(positions, Opened(r.decision, sl, None))
                                 ELSE positions
                 /\ next_ticket' = IF ok THEN next_ticket + 1 ELSE next_ticket
                 /\ _last_entry_check' = IF ok THEN _last_entry_check ELSE 0
                 /\ tasks' = [tasks EXCEPT ![t] =
                                IF ok THEN [@ EXCEPT !.pc = "e_emit", !.placed = @ + 1]
                                ELSE Asleep(t)]
  /\ UNCHANGED << _running, is_running, _task, _last_guardian_check,
                  _last_sl_hit, _previous_positions, calls, quote, market_open, session_allowed,
                  externals, scope, ticks, acts, since_sl, close_events >>

\* After the broadcasts and the notification of an order that _check_dca_averaging
\* or _run_entry has placed: the tick goes on to step 8, or the entry check
\* is stamped.
OrderEmitted(t) ==
  /\ LoopFree
  /\ tasks[t].pc \in {"dca_emit", "e_emit"}
  /\ IF tasks[t].pc = "dca_emit"
     THEN /\ tasks' = [tasks EXCEPT ![t] = [@ EXCEPT !.pc = "entry"]]
          /\ _last_entry_check' = _last_entry_check
     ELSE /\ tasks' = [tasks EXCEPT ![t] = Asleep(t)]
          /\ _last_entry_check' = 0
  /\ ev' = NoEvent
  /\ UNCHANGED << _running, is_running, _task,
                  _last_guardian_check, _last_sl_hit, _previous_positions,
                  calls, brokerVars, scope, ticks, acts, since_sl, close_events >>

\* ------------------------------------------------------------ the whole system
Next ==
  \/ PriceMove
  \/ ExternalOpen
  \/ BrokerClose
  \/ MarketToggle
  \/ SessionToggle
  \/ Clock
  \/ StartRefused
  \/ StartNotConnected
  \/ StartAccepted
  \/ StartReturn
  \/ StopRefused
  \/ StopAccepted
  \/ StopReturn
  \/ \E t \in TaskIds :
       \/ Cancelled(t)
       \/ TickBegin(t)
       \/ FetchPositions(t)
       \/ DetectStart(t)
       \/ DetectClosed(t)
       \/ DetectEmitted(t)
       \/ DetectUpdate(t)
       \/ Gates(t)
       \/ Bep(t)
       \/ BepEmitted(t)
       \/ Guardian(t)
       \/ GuardianHold(t)
       \/ GuardianModify(t)
       \/ GuardianClose(t)
       \/ GuardianAddDca(t)
       \/ GuardianEmitted(t)
       \/ Dca(t)
       \/ OrderEmitted(t)
       \/ EntrySkip(t)
       \/ EntryBlocked(t)
       \/ EntryRequest(t)
       \/ EntryDecide(t)

Spec == Init /\ [][Next]_vars

\* ------------------------------------------------ the clamp of the entry order
\* The "SL" values the clamp is applied to: None (null or absent), 0, and
\* prices around the caps of both quotes.
ClampStops ==
  {None, 0, 24000, 24939, 24940, 24941, 24981, 24982, 24983,
   25059, 25060, 25061, 25099, 25100, 25101, 26000}

\* A decision that passed the confidence test, at the live quote.
ClampInit ==
  /\ _running = TRUE
  /\ is_running = TRUE
  /\ _task = 1
  /\ _last_entry_check = None
  /\ _last_guardian_check = None
  /\ _last_sl_hit = None
  /\ _previous_positions = << >>
  /\ tasks = [t \in TaskIds |-> IF t = 1 THEN [NoTask EXCEPT !.pc = "e_ai"] ELSE NoTask]
  /\ calls = [c \in CallIds |-> NoCall]
  /\ positions = << >>
  /\ quote \in Quotes
  /\ next_ticket = 1
  /\ market_open = TRUE
  /\ session_allowed = TRUE
  /\ externals = 0
  /\ scope = "operator"
  /\ ticks = 1
  /\ acts = 0
  /\ since_sl = None
  /\ close_events = NoCloseEvents
  /\ ev \in [op : {"decision"}, decision : Sides, SL : ClampStops]

\* _run_entry from the clamp to the request of place_order, with a price
\* lookup that answers the live quote.
EntryOrder ==
  /\ ev.op = "decision"
  /\ ev' = [op |-> "entry_order", side |-> ev.decision, SL |-> ev.SL,
            price |-> IF ev.decision = "BUY" THEN quote.ask ELSE quote.bid,
            sl |-> EntryStop(ev.decision, ev.SL, quote)]
  /\ UNCHANGED << engineVars, tasks, calls, brokerVars, scope, ticks, acts,
                  since_sl, close_events >>

ClampNext == EntryOrder

ClampSpec == ClampInit /\ [][ClampNext]_vars

\* ------------------------------------------------- the averaging under a held price
\* How far, in pips, the held quote stands from the entry of the position that
\* is open when the engine starts.
LadderShifts ==
  {-65, -62, -45, -42, -22, -21, -20, -19, 0, 18, 19, 20, 38, 39, 40, 45,
   58, 59, 60, 65}

\* The engine has been started on an account that holds one position, opened
\* by someone else at 2500.0, and start() has returned; the price has moved
\* away from the entry and stays where it is.
LadderInit ==
  /\ _running = TRUE
  /\ is_running = TRUE
  /\ _task = 1
  /\ _last_entry_check = None
  /\ _last_guardian_check = None
  /\ _last_sl_hit = None
  /\ _previous_positions = << >>
  /\ tasks = [t \in TaskIds |-> IF t = 1 THEN [NoTask EXCEPT !.pc = "new"] ELSE NoTask]
  /\ calls = [c \in CallIds |-> NoCall]
  /\ \E side \in Sides, dsl \in ExternalStops :
       positions =
         << [ticket |-> 1, type |-> side, open_price |-> 25000,
             sl |-> IF dsl = 0 THEN 0
                    ELSE IF side = "BUY" THEN 25000 - dsl ELSE 25000 + dsl,
             tp |-> 0] >>
  /\ \E s \in LadderShifts : quote = [bid |-> 25000 + s, ask |-> 25002 + s]
  /\ next_ticket = 2
  /\ market_open = TRUE
  /\ session_allowed = TRUE
  /\ externals = 1
  /\ scope = "ladder"
  /\ ticks = 0
  /\ acts = 0
  /\ since_sl = None
  /\ close_events = NoCloseEvents
  /\ ev = NoEvent

\* The ticks of the driver, under a guardian that holds, while time passes.
LadderNext ==
  \/ Clock
  \/ \E t \in TaskIds :
       \/ TickBegin(t)
       \/ FetchPositions(t)
       \/ DetectStart(t)
       \/ DetectClosed(t)
       \/ DetectEmitted(t)
       \/ DetectUpdate(t)
       \/ Gates(t)
       \/ Bep(t)
       \/ BepEmitted(t)
       \/ Guardian(t)
       \/ GuardianHold(t)
       \/ Dca(t)
       \/ OrderEmitted(t)
       \/ EntrySkip(t)
       \/ EntryBlocked(t)
       \/ EntryRequest(t)
       \/ EntryDecide(t)

LadderSpec == LadderInit /\ [][LadderNext]_vars


\* ------------------------------------------------- the guardian over a given book
\* The engine has been started on an account that holds one to max_positions
\* positions of one side, opened by someone else at 2500.0 without stops, and
\* start() has returned; the price stays where it is and the guardian acts.
GuardInit ==
  /\ _running = TRUE
  /\ is_running = TRUE
  /\ _task = 1
  /\ _last_entry_check = None
  /\ _last_guardian_check = None
  /\ _last_sl_hit = None
  /\ _previous_positions = << >>
  /\ tasks = [t \in TaskIds |-> IF t = 1 THEN [NoTask EXCEPT !.pc = "new"] ELSE NoTask]
  /\ calls = [c \in CallIds |-> NoCall]
  /\ \E side \in Sides, n \in 1..max_positions :
       /\ positions = [i \in 1..n |->
                         [ticket |-> i, type |-> side, open_price |-> 25000,
                          sl |-> 0, tp |-> 0]]
       /\ next_ticket = n + 1
       /\ externals = n
  /\ quote \in Quotes
  /\ market_open = TRUE
  /\ session_allowed = TRUE
  /\ scope = "guarded"
  /\ ticks = 0
  /\ acts = 0
  /\ since_sl = None
  /\ close_events = NoCloseEvents
  /\ ev = NoEvent

\* The ticks of the driver while time passes.
GuardNext ==
  \/ Clock
  \/ \E t \in TaskIds :
       \/ TickBegin(t)
       \/ FetchPositions(t)
       \/ DetectStart(t)
       \/ DetectClosed(t)
       \/ DetectEmitted(t)
       \/ DetectUpdate(t)
       \/ Gates(t)
       \/ Bep(t)
       \/ BepEmitted(t)
       \/ Guardian(t)
       \/ GuardianHold(t)
       \/ GuardianModify(t)
       \/ GuardianClose(t)
       \/ GuardianAddDca(t)
       \/ GuardianEmitted(t)
       \/ Dca(t)
       \/ OrderEmitted(t)
       \/ EntrySkip(t)
       \/ EntryBlocked(t)
       \/ EntryRequest(t)
       \/ EntryDecide(t)

GuardSpec == GuardInit /\ [][GuardNext]_vars

\* A step of driver t.
DriverStep(t) ==
  \/ TickBegin(t)
  \/ FetchPositions(t)
  \/ DetectStart(t)
  \/ DetectClosed(t)
  \/ DetectEmitted(t)
  \/ DetectUpdate(t)
  \/ Gates(t)
  \/ Bep(t)
  \/ BepEmitted(t)
  \/ Guardian(t)
  \/ GuardianHold(t)
  \/ GuardianModify(t)
  \/ GuardianClose(t)
  \/ GuardianAddDca(t)
  \/ GuardianEmitted(t)
  \/ Dca(t)
  \/ OrderEmitted(t)
  \/ EntrySkip(t)
  \/ EntryBlocked(t)
  \/ EntryRequest(t)
  \/ EntryDecide(t)

\* The event loop resumes a driver that can go on: every await of the engine
\* returns or raises (the adapters answer a failure with a value, the sleep
\* ends after its 30 seconds).
GuardLiveSpec == GuardSpec /\ \A t \in TaskIds : WF_vars(DriverStep(t))

(***************************************************************************)
(* The reporting of a closure under an operator who starts and stops the   *)
(* engine: the engine runs, its driver sleeps after a tick that has        *)
(* tracked position 1, and the position is still open.                     *)
(***************************************************************************)

ReportInit ==
  /\ _running = TRUE
  /\ is_running = TRUE
  /\ _task = 1
  /\ _last_entry_check = None
  /\ _last_guardian_check = None
  /\ _last_sl_hit = None
  /\ tasks = [t \in TaskIds |-> IF t = 1 THEN Asleep(t) ELSE NoTask]
  /\ calls = [c \in CallIds |-> NoCall]
  /\ \E side \in Sides :
       positions = << [ticket |-> 1, type |-> side, open_price |-> 25000,
                       sl |-> 0, tp |-> 0] >>
  /\ quote \in Quotes
  /\ _previous_positions = [k \in {1} |-> get_positions[1]]
  /\ next_ticket = 2
  /\ market_open = TRUE
  /\ session_allowed = TRUE
  /\ externals = 1
  /\ scope = "reporting"
  /\ ticks = 0
  /\ acts = 0
  /\ since_sl = None
  /\ close_events = NoCloseEvents
  /\ ev = NoEvent

ReportNext ==
  \/ BrokerClose
  \/ Clock
  \/ StartRefused
  \/ StartNotConnected
  \/ StartAccepted
  \/ StartReturn
  \/ StopRefused
  \/ StopAccepted
  \/ StopReturn
  \/ \E t \in TaskIds :
       \/ Cancelled(t)
       \/ TickBegin(t)
       \/ FetchPositions(t)
       \/ DetectStart(t)
       \/ DetectClosed(t)
       \/ DetectEmitted(t)
       \/ DetectUpdate(t)
       \/ Gates(t)
       \/ Bep(t)
       \/ BepEmitted(t)
       \/ Guardian(t)
       \/ GuardianHold(t)
       \/ Dca(t)
       \/ OrderEmitted(t)
       \/ EntrySkip(t)
       \/ EntryBlocked(t)
       \/ EntryRequest(t)
       \/ EntryDecide(t)

ReportSpec == ReportInit /\ [][ReportNext]_vars


\* ------------------------------------------------------------- the session gate
\* _is_allowed_session, the table of the sessions: start and end hour (UTC).
sessions ==
  [sydney |-> << 21, 6 >>, asia |-> << 0, 9 >>, london |-> << 7, 16 >>,
   newyork |-> << 12, 21 >>]

\* The names an allow-list can hold: the four sessions, one of them also in
\* capitals, and a name the table does not know.
SessionNames == {"sydney", "SYDNEY", "asia", "london", "newyork", "tokyo"}

\* str.lower() on the names above.
lower(name) == IF name = "SYDNEY" THEN "sydney" ELSE name

\* A test of the hour that knows no session over midnight.
InSessionSameDay(hour, start, end) == start <= hour /\ hour < end

\* _is_allowed_session, the test of the hour against one session.
InSession(hour, start, end) ==
  \/ start <= hour /\ hour < end
  \/ start > end /\ (hour >= start \/ hour < end)

\* _is_allowed_session at the UTC hour `hour` with the allow-list `allowed`.
_is_allowed_session(hour, allowed) ==
  \E session_name \in allowed :
    /\ lower(session_name) \in DOMAIN sessions
    /\ InSession(hour, sessions[lower(session_name)][1],
                 sessions[lower(session_name)][2])

\* A tick of a running engine has reached the session gate, at some hour,
\* under some allow-list, with the filter on or off.
SessionInit ==
  /\ _running = TRUE
  /\ is_running = TRUE
  /\ _task = 1
  /\ _last_entry_check = None
  /\ _last_guardian_check = None
  /\ _last_sl_hit = None
  /\ _previous_positions = << >>
  /\ tasks = [t \in TaskIds |-> IF t = 1 THEN [NoTask EXCEPT !.pc = "gates"] ELSE NoTask]
  /\ calls = [c \in CallIds |-> NoCall]
  /\ positions = << >>
  /\ quote = [bid |-> 25000, ask |-> 25000]
  /\ next_ticket = 1
  /\ market_open = TRUE
  /\ session_allowed = TRUE
  /\ externals = 0
  /\ scope = "operator"
  /\ ticks = 1
  /\ acts = 0
  /\ since_sl = None
  /\ close_events = NoCloseEvents
  /\ ev \in [op : {"hour"}, hour : 0..23, allowed : SUBSET SessionNames,
             session_filter_enabled : BOOLEAN]

\* _tick, step 5: "if session_filter_enabled and not _is_allowed_session():
\* return".
SessionGate ==
  /\ ev.op = "hour"
  /\ LET in_session == _is_allowed_session(ev.hour, ev.allowed)
         passes == ~(ev.session_filter_enabled /\ ~in_session)
     IN /\ ev' = [op |-> "session", hour |-> ev.hour, allowed |-> ev.allowed,
                  session_filter_enabled |-> ev.session_filter_enabled,
                  in_session |-> in_session, passes |-> passes]
        /\ session_allowed' = in_session
        /\ tasks' = [tasks EXCEPT ![1] =
                       IF passes THEN [@ EXCEPT !.pc = "bep", !.idx = 1]
                       ELSE Asleep(1)]
  /\ UNCHANGED << engineVars, calls, positions, quote, next_ticket, market_open,
                  externals, scope, ticks, acts, since_sl, close_events >>

SessionNext == SessionGate

SessionSpec == SessionInit /\ [][SessionNext]_vars


\* ----------------------------------------------------------- the dynamic lot
\* Lots are counted in thousandths of a lot, balances in whole units of the
\* account currency.
RECURSIVE Pow(_, _)
Pow(b, n) == IF n = 0 THEN 1 ELSE b * Pow(b, n - 1)

\* The base lots (config.trading.lot_size): 0.001, 0.01, 0.014, 0.02, 0.05,
\* 0.1 lot.
BaseLots == {1, 10, 14, 20, 50, 100}

\* tracker.initial_balance and the account's balance.
InitialBalances == {-100, 0, 100, 300}
CurrentBalances ==
  {-50, 0, 99, 100, 199, 200, 399, 400, 599, 600, 1199, 1200, 2400, 3199, 3200}

\* A count of doublings that goes on below the initial balance.
times_doubled_signed(initial_balance, current_balance) ==
  IF current_balance >= initial_balance
  THEN CHOOSE k \in 0..MaxDoublings :
         /\ initial_balance * Pow(2, k) <= current_balance
         /\ k < MaxDoublings => current_balance < initial_balance * Pow(2, k + 1)
  ELSE 0 - 1

\* int(math.log2(current_balance / initial_balance)) for a ratio >= 1: the
\* number of times the initial balance doubles within the current one.
times_doubled(initial_balance, current_balance) ==
  IF current_balance >= initial_balance
  THEN CHOOSE k \in 0..MaxDoublings :
         /\ initial_balance * Pow(2, k) <= current_balance
         /\ k < MaxDoublings => current_balance < initial_balance * Pow(2, k + 1)
  ELSE 0

\* round(x, 2) of x = num / den thousandths of a lot: the nearest hundredth of
\* a lot; where x is halfway between two, what round() returns depends on
\* the float that stands for x, and both are possible.
Round2(num, den) ==
  LET unit == 10 * den
      q == num \div unit
      r == num - q * unit
  IN IF 2 * r < unit THEN {10 * q}
     ELSE IF 2 * r > unit THEN {10 * (q + 1)}
     ELSE {10 * q, 10 * (q + 1)}

\* _get_dynamic_lot: the lots it can return for a base lot, an initial and a
\* current balance.
_get_dynamic_lot(base_lot, initial_balance, current_balance) ==
  IF initial_balance <= 0 THEN {base_lot}
  ELSE LET k == times_doubled(initial_balance, current_balance)
       IN IF k >= 0 THEN Round2(base_lot * Pow(13, k), Pow(10, k))
          ELSE Round2(base_lot * Pow(10, 0 - k), Pow(13, 0 - k))

\* A controller is about to size an order.
LotInit ==
  /\ _running = TRUE
  /\ is_running = TRUE
  /\ _task = 1
  /\ _last_entry_check = None
  /\ _last_guardian_check = None
  /\ _last_sl_hit = None
  /\ _previous_positions = << >>
  /\ tasks = [t \in TaskIds |-> IF t = 1 THEN [NoTask EXCEPT !.pc = "dca"] ELSE NoTask]
  /\ calls = [c \in CallIds |-> NoCall]
  /\ positions = << >>
  /\ quote = [bid |-> 25000, ask |-> 25000]
  /\ next_ticket = 1
  /\ market_open = TRUE
  /\ session_allowed = TRUE
  /\ externals = 0
  /\ scope = "operator"
  /\ ticks = 1
  /\ acts = 0
  /\ since_sl = None
  /\ close_events = NoCloseEvents
  /\ ev \in [op : {"sizing"}, base : BaseLots, initial : InitialBalances,
             current : CurrentBalances]

\* _get_dynamic_lot returns.
DynamicLot ==
  /\ ev.op = "sizing"
  /\ \E lot \in _get_dynamic_lot(ev.base, ev.initial, ev.current) :
       ev' = [op |-> "lot", base |-> ev.base, initial |-> ev.initial,
              current |-> ev.current, lot |-> lot]
  /\ UNCHANGED << engineVars, tasks, calls, brokerVars, scope, ticks, acts,
                  since_sl, close_events >>

LotNext == DynamicLot

LotSpec == LotInit /\ [][LotNext]_vars

(***************************************************************************)
(* The growth ledger (profit_tracker.py).  Balances and profits are in     *)
(* whole units of the account currency.  The history holds at most the     *)
(* entry of the present day.                                               *)
(***************************************************************************)

MaxLedgerCalls == 3   \* calls made on the ledger in one run

LedgerBalances == {-100, 0, 100, 300}
LedgerEquities == {None, 0, 120}
LedgerProfits == {-5, 0, 5}

\* ProfitTracker.__init__ followed by _load_history: what the file holds, or
\* the defaults when there is no file.
ProfitTracker(loaded) ==
  [initial_balance |-> loaded, current_balance |-> 0, history |-> << >>,
   total_wins |-> 0, total_losses |-> 0, total_trades |-> 0]

set_initial_balance_overwriting(self, balance) ==
  [self EXCEPT !.initial_balance = balance]

set_initial_balance(self, balance) ==
  IF self.initial_balance = 0
  THEN [self EXCEPT !.initial_balance = balance]
  ELSE self

\* The first entry of the history takes its profit from the initial balance.
_calculate_daily_profits(self) ==
  IF Len(self.history) > 0 /\ self.initial_balance > 0
  THEN [self EXCEPT !.history[1].profit_day =
                       self.history[1].balance - self.initial_balance]
  ELSE self

update_balance(self, balance, equity) ==
  LET eq == IF equity = None \/ equity = 0 THEN balance ELSE equity
      entered ==
        IF Len(self.history) > 0
        THEN [self EXCEPT !.current_balance = balance,
                          !.history[1].balance = balance,
                          !.history[1].equity = eq]
        ELSE [self EXCEPT !.current_balance = balance,
                          !.history = << [balance |-> balance, equity |-> eq,
                                          profit_day |-> 0, trades_count |-> 0,
                                          wins |-> 0, losses |-> 0] >>]
  IN _calculate_daily_profits(entered)

record_trade(self, profit) ==
  LET won == IF profit >= 0 THEN 1 ELSE 0
      counted == [self EXCEPT !.total_trades = @ + 1,
                              !.total_wins = @ + won,
                              !.total_losses = @ + (1 - won)]
  IN IF Len(self.history) > 0
     THEN [counted EXCEPT !.history[1].profit_day = @ + profit,
                          !.history[1].trades_count = @ + 1,
                          !.history[1].wins = @ + won,
                          !.history[1].losses = @ + (1 - won)]
     ELSE [counted EXCEPT !.history =
             << [balance |-> self.current_balance,
                 equity |-> self.current_balance,
                 profit_day |-> profit, trades_count |-> 1,
                 wins |-> won, losses |-> 1 - won] >>]

\* The deals of the broker's history: entry deals, and exit deals with their
\* profit.
Deals ==
  {[entry |-> 0, profit |-> 0], [entry |-> 1, profit |-> -5],
   [entry |-> 1, profit |-> 0], [entry |-> 1, profit |-> 5]}

DealLists ==
  {<< >>} \cup {<<a>> : a \in Deals} \cup {<<a, b>> : a \in Deals, b \in Deals}

\* A history that counts every deal as a trade.
get_trade_history_of_all_deals(deals) ==
  LET exits == SelectSeq(deals, LAMBDA d : d.entry = 1)
      wins == Len(SelectSeq(exits, LAMBDA d : d.profit >= 0))
      losses == Len(SelectSeq(exits, LAMBDA d : d.profit < 0))
  IN [total_trades |-> Len(deals), wins |-> wins, losses |-> losses]

\* MT5Client.get_trade_history on the deals the broker returns: the exit
\* deals are counted, as wins when their profit is >= 0.
get_trade_history(deals) ==
  LET exits == SelectSeq(deals, LAMBDA d : d.entry = 1)
      wins == Len(SelectSeq(exits, LAMBDA d : d.profit >= 0))
      losses == Len(SelectSeq(exits, LAMBDA d : d.profit < 0))
  IN [total_trades |-> wins + losses, wins |-> wins, losses |-> losses]

\* The totals of the tracker set from a history, as both endpoints do it.
synced(self, history) ==
  [self EXCEPT !.total_wins = history.wins,
               !.total_losses = history.losses,
               !.total_trades = history.total_trades]

LedgerOps ==
  {"ledger", "set_initial_balance", "update_balance", "record_trade", "sync"}

LedgerInit ==
  /\ _running = FALSE
  /\ is_running = FALSE
  /\ _task = 0
  /\ _last_entry_check = None
  /\ _last_guardian_check = None
  /\ _last_sl_hit = None
  /\ _previous_positions = << >>
  /\ tasks = [t \in TaskIds |-> NoTask]
  /\ calls = [c \in CallIds |-> NoCall]
  /\ positions = << >>
  /\ quote = [bid |-> 25000, ask |-> 25000]
  /\ next_ticket = 1
  /\ market_open = TRUE
  /\ session_allowed = TRUE
  /\ externals = 0
  /\ scope = "operator"
  /\ ticks = 0
  /\ acts = 0
  /\ since_sl = None
  /\ close_events = NoCloseEvents
  /\ \E loaded \in LedgerBalances :
       ev = [op |-> "ledger", arg |-> 0, made |-> 0,
             tracker |-> ProfitTracker(loaded)]

LedgerRest ==
  UNCHANGED << engineVars, tasks, calls, brokerVars, scope, ticks, acts,
               since_sl, close_events >>

\* A call of set_initial_balance, as the statistics endpoint makes it.
SetInitialBalance ==
  /\ ev.op \in LedgerOps
  /\ ev.made < MaxLedgerCalls
  /\ \E balance \in LedgerBalances :
       ev' = [op |-> "set_initial_balance", arg |-> balance,
              made |-> ev.made + 1,
              tracker |-> set_initial_balance(ev.tracker, balance)]
  /\ LedgerRest

\* A call of update_balance.
UpdateBalance ==
  /\ ev.op \in LedgerOps
  /\ ev.made < MaxLedgerCalls
  /\ \E balance \in LedgerBalances, equity \in LedgerEquities :
       ev' = [op |-> "update_balance", arg |-> balance,
              made |-> ev.made + 1,
              tracker |-> update_balance(ev.tracker, balance, equity)]
  /\ LedgerRest

\* A call of record_trade.
RecordTrade ==
  /\ ev.op \in LedgerOps
  /\ ev.made < MaxLedgerCalls
  /\ \E profit \in LedgerProfits :
       ev' = [op |-> "record_trade", arg |-> profit,
              made |-> ev.made + 1,
              tracker |-> record_trade(ev.tracker, profit)]
  /\ LedgerRest

\* A win-rate sync from the broker's history: sync_win_rate_from_mt5, which
\* sets the totals unless the history is an error, or get_profit_stats, which
\* sets them only from a history with trades.
SyncWinRate ==
  /\ ev.op \in LedgerOps
  /\ ev.made < MaxLedgerCalls
  /\ \E deals \in DealLists, error \in BOOLEAN, stats \in BOOLEAN :
       LET history == get_trade_history(deals)
           skipped == error \/ (stats /\ history.total_trades = 0)
       IN ev' = [op |-> "sync", arg |-> IF skipped THEN None ELSE Len(deals),
                 made |-> ev.made + 1,
                 tracker |-> IF skipped THEN ev.tracker
                             ELSE synced(ev.tracker, history)]
  /\ LedgerRest

LedgerNext == SetInitialBalance \/ UpdateBalance \/ RecordTrade \/ SyncWinRate

LedgerSpec == LedgerInit /\ [][LedgerNext]_vars

(***************************************************************************)
(* The decision service client (ai_brain.py).  A key list is modelled by   *)
(* its length; an HTTP exchange by the kind of its outcome.                *)
(***************************************************************************)

max_retries == 3

Providers == {"groq", "deepseek"}
KeyCounts == 0 .. 2

\* What one HTTP attempt can come to: a rate-limit response, a response
\* whose content parses, one whose content does not parse, one whose body
\* has no content, another error status, or no response at all.
Responses == {"429", "ok", "unparsable", "malformed", "status", "transport"}

Errors ==
  {"No API key configured", "Failed to parse AI response", "API error",
   "exception", "Max retries exceeded due to rate limiting"}

\* AIBrain.__init__ with the rotation indices a run of calls can have left.
AIBrain ==
  { [provider |-> p, groq_keys |-> g, deepseek_keys |-> d,
     groq_index |-> gi, deepseek_index |-> di] :
      p \in Providers, g \in KeyCounts, d \in KeyCounts,
      gi \in KeyCounts, di \in KeyCounts }

\* Whether _get_api_config returns a key.
_get_api_config(self) ==
  IF self.provider = "groq" THEN self.groq_keys > 0 ELSE self.deepseek_keys > 0

_rotate_api_key(self) ==
  IF self.provider = "groq" /\ self.groq_keys > 1
  THEN [self EXCEPT !.groq_index = (@ + 1) % self.groq_keys]
  ELSE IF self.provider = "deepseek" /\ self.deepseek_keys > 1
  THEN [self EXCEPT !.deepseek_index = (@ + 1) % self.deepseek_keys]
  ELSE self

switch_provider(self, provider) ==
  IF provider \in Providers THEN [self EXCEPT !.provider = provider] ELSE self

\* The responses after which _call_ai goes round its loop again.
RetriedOnAnyStatus(response) == response \in {"429", "status"}

Retried(response) == response = "429"

\* What _call_ai returns after a response it does not retry.
Returned(response) ==
  CASE response = "ok" -> "decision"
    [] response = "unparsable" -> "Failed to parse AI response"
    [] response = "status" -> "API error"
    [] OTHER -> "exception"

CallInit ==
  /\ _running = FALSE
  /\ is_running = FALSE
  /\ _task = 0
  /\ _last_entry_check = None
  /\ _last_guardian_check = None
  /\ _last_sl_hit = None
  /\ _previous_positions = << >>
  /\ tasks = [t \in TaskIds |-> NoTask]
  /\ calls = [c \in CallIds |-> NoCall]
  /\ positions = << >>
  /\ quote = [bid |-> 25000, ask |-> 25000]
  /\ next_ticket = 1
  /\ market_open = TRUE
  /\ session_allowed = TRUE
  /\ externals = 0
  /\ scope = "operator"
  /\ ticks = 0
  /\ acts = 0
  /\ since_sl = None
  /\ close_events = NoCloseEvents
  /\ \E self \in AIBrain :
       /\ self.groq_index < IF self.groq_keys = 0 THEN 1 ELSE self.groq_keys
       /\ self.deepseek_index < IF self.deepseek_keys = 0 THEN 1
                                ELSE self.deepseek_keys
       /\ ev = [op |-> "_call_ai", pc |-> "start", brain |-> self,
                keyed |-> _get_api_config(self), api_key |-> FALSE,
                attempt |-> 0, posts |-> 0, limited |-> 0,
                response |-> "none", result |-> "none"]

CallRest ==
  UNCHANGED << engineVars, tasks, calls, brokerVars, scope, ticks, acts,
               since_sl, close_events >>

\* _call_ai up to its loop: the key test.
CallBegin ==
  /\ ev.op = "_call_ai"
  /\ ev.pc = "start"
  /\ ev' = IF _get_api_config(ev.brain)
           THEN [ev EXCEPT !.pc = "post", !.api_key = TRUE]
           ELSE [ev EXCEPT !.pc = "done", !.result = "No API key configured"]
  /\ CallRest

\* One round of the loop: the request and what comes of it, up to the return
\* or to the sleep before the next round.
CallPost ==
  /\ ev.op = "_call_ai"
  /\ ev.pc = "post"
  /\ \E response \in Responses :
       ev' = IF Retried(response)
             THEN [ev EXCEPT !.pc = "sleep", !.posts = @ + 1,
                             !.limited = @ + (IF response = "429" THEN 1 ELSE 0),
                             !.response = response,
                             !.brain = _rotate_api_key(ev.brain),
                             !.api_key = _get_api_config(_rotate_api_key(ev.brain))]
             ELSE [ev EXCEPT !.pc = "done", !.posts = @ + 1,
                             !.response = response,
                             !.result = Returned(response)]
  /\ CallRest

\* The sleep is over: the next round, or the return after the last one.
CallSleep ==
  /\ ev.op = "_call_ai"
  /\ ev.pc = "sleep"
  /\ ev' = IF ev.attempt + 1 < max_retries
           THEN [ev EXCEPT !.pc = "post", !.attempt = @ + 1]
           ELSE [ev EXCEPT !.pc = "done", !.attempt = @ + 1,
                           !.result = "Max retries exceeded due to rate limiting"]
  /\ CallRest

\* The provider is switched from outside while the call is suspended.
SwitchProvider ==
  /\ ev.op = "_call_ai"
  /\ ev.pc \in {"post", "sleep"}
  /\ \E provider \in Providers :
       /\ provider # ev.brain.provider
       /\ ev' = [ev EXCEPT !.brain = switch_provider(ev.brain, provider)]
  /\ CallRest

CallStep == CallBegin \/ CallPost \/ CallSleep

CallNext == CallBegin \/ CallPost \/ CallSleep \/ SwitchProvider

CallSpec == CallInit /\ [][CallNext]_vars

\* The event loop runs a coroutine that is ready; a request ends within its
\* timeout and a sleep within its delay.
CallLiveSpec == CallSpec /\ WF_vars(CallStep)

(***************************************************************************)
(* The reasoning history (ai_brain.py).  An entry is the number of its     *)
(* call, counted on from the entries of the file, with the kind of the     *)
(* call and what the decision service returned.                            *)
(***************************************************************************)

history_limit == 100

MaxBrainCalls == 3    \* analyze_entry and guardian_check calls in one run

\* How many entries the history file can hold as the brain is constructed.
FileLengths == {0, 98, 99, 100, 101}

\* The file's entries, oldest first.
FileEntries(n) ==
  [i \in 1 .. n |-> [serial |-> i, type |-> "FILE", result |-> "decision"]]

\* A history that keeps its oldest entries.
kept_oldest(history) ==
  IF Len(history) > history_limit
  THEN SubSeq(history, 1, history_limit)
  ELSE history

\* history[-100:]
kept(history) ==
  IF Len(history) > history_limit
  THEN SubSeq(history, Len(history) - history_limit + 1, Len(history))
  ELSE history

\* AIBrain._load_history
_load_history(data) == kept(data)

\* analyze_entry and guardian_check after _call_ai has returned: the entry is
\* appended and the history is cut to its last entries.
logged(history, entry) ==
  LET appended == Append(history, entry)
  IN IF Len(appended) > history_limit THEN kept(appended) ELSE appended

BrainInit ==
  /\ _running = FALSE
  /\ is_running = FALSE
  /\ _task = 0
  /\ _last_entry_check = None
  /\ _last_guardian_check = None
  /\ _last_sl_hit = None
  /\ _previous_positions = << >>
  /\ tasks = [t \in TaskIds |-> NoTask]
  /\ calls = [c \in CallIds |-> NoCall]
  /\ positions = << >>
  /\ quote = [bid |-> 25000, ask |-> 25000]
  /\ next_ticket = 1
  /\ market_open = TRUE
  /\ session_allowed = TRUE
  /\ externals = 0
  /\ scope = "operator"
  /\ ticks = 0
  /\ acts = 0
  /\ since_sl = None
  /\ close_events = NoCloseEvents
  /\ \E n \in FileLengths :
       ev = [op |-> "brain", made |-> 0, log |-> FileEntries(n),
             reasoning_history |-> _load_history(FileEntries(n))]

\* analyze_entry returns: _call_ai has returned a decision or an error.
AnalyzeEntry ==
  /\ ev.op \in {"brain", "analyze_entry", "guardian_check"}
  /\ ev.made < MaxBrainCalls
  /\ \E result \in Errors \cup {"decision"} :
       LET entry == [serial |-> Len(ev.log) + 1, type |-> "ENTRY",
                     result |-> result]
       IN ev' = [op |-> "analyze_entry", made |-> ev.made + 1,
                 log |-> Append(ev.log, entry),
                 reasoning_history |-> logged(ev.reasoning_history, entry)]
  /\ CallRest

\* guardian_check returns: _call_ai has returned a decision or an error.
GuardianCheck ==
  /\ ev.op \in {"brain", "analyze_entry", "guardian_check"}
  /\ ev.made < MaxBrainCalls
  /\ \E result \in Errors \cup {"decision"} :
       LET entry == [serial |-> Len(ev.log) + 1, type |-> "GUARDIAN",
                     result |-> result]
       IN ev' = [op |-> "guardian_check", made |-> ev.made + 1,
                 log |-> Append(ev.log, entry),
                 reasoning_history |-> logged(ev.reasoning_history, entry)]
  /\ CallRest

BrainNext == AnalyzeEntry \/ GuardianCheck

BrainSpec == BrainInit /\ [][BrainNext]_vars

(***************************************************************************)
(* The broadcaster (websocket_manager.py).  A client is a number; the      *)
(* connection list is a list of distinct clients.  The lock is never held  *)
(* across an await, so connect and disconnect act in one step.             *)
(***************************************************************************)

MaxClients == 4       \* clients that connect in one run

\* WebSocketManager.disconnect on the list conns.
disconnect(conns, websocket) == SelectSeq(conns, LAMBDA c : c # websocket)

\* The for loop of broadcast takes its next connection: the list iterator
\* holds the number of items it has yielded and reads the list as it is now.
\* With none left, the clean-up loop runs and broadcast returns.
Iterate(b) ==
  IF b.idx < Len(b.active_connections)
  THEN [b EXCEPT !.pc = "send", !.idx = @ + 1,
                 !.cur = b.active_connections[b.idx + 1]]
  ELSE [b EXCEPT !.pc = "done", !.cur = 0,
                 !.active_connections =
                    SelectSeq(@, LAMBDA c : c \notin Range(b.disconnected))]

BroadcastInit ==
  /\ _running = FALSE
  /\ is_running = FALSE
  /\ _task = 0
  /\ _last_entry_check = None
  /\ _last_guardian_check = None
  /\ _last_sl_hit = None
  /\ _previous_positions = << >>
  /\ tasks = [t \in TaskIds |-> NoTask]
  /\ calls = [c \in CallIds |-> NoCall]
  /\ positions = << >>
  /\ quote = [bid |-> 25000, ask |-> 25000]
  /\ next_ticket = 1
  /\ market_open = TRUE
  /\ session_allowed = TRUE
  /\ externals = 0
  /\ scope = "operator"
  /\ ticks = 0
  /\ acts = 0
  /\ since_sl = None
  /\ close_events = NoCloseEvents
  /\ \E n \in 0 .. MaxClients - 1 :
       ev = [op |-> "broadcast", pc |-> "start",
             active_connections |-> [i \in 1 .. n |-> i],
             listed |-> [i \in 1 .. n |-> i], connected |-> n,
             dropped |-> {}, idx |-> 0, cur |-> 0,
             disconnected |-> << >>, sent |-> {}, failed |-> {}]

BroadcastRest ==
  UNCHANGED << engineVars, tasks, calls, brokerVars, scope, ticks, acts,
               since_sl, close_events >>

\* broadcast up to its first send, or its return with nobody connected.
BroadcastBegin ==
  /\ ev.op = "broadcast"
  /\ ev.pc = "start"
  /\ ev' = IF Len(ev.active_connections) = 0
           THEN [ev EXCEPT !.pc = "done"]
           ELSE Iterate([ev EXCEPT !.listed = ev.active_connections])
  /\ BroadcastRest

\* send_text to the current connection returns or raises; broadcast goes on
\* to its next send, or through the clean-up to its return.
SendReturn ==
  /\ ev.op = "broadcast"
  /\ ev.pc = "send"
  /\ ev' = IF ev.cur \in ev.dropped
           THEN Iterate([ev EXCEPT !.failed = @ \cup {ev.cur},
                                   !.disconnected = Append(@, ev.cur)])
           ELSE Iterate([ev EXCEPT !.sent = @ \cup {ev.cur}])
  /\ BroadcastRest

\* The connection of a client breaks.
Drop ==
  /\ ev.op = "broadcast"
  /\ ev.pc \in {"start", "send"}
  /\ \E c \in Range(ev.active_connections) \ ev.dropped :
       ev' = [ev EXCEPT !.dropped = @ \cup {c}]
  /\ BroadcastRest

\* websocket_endpoint sees the broken connection and calls disconnect.
EndpointDisconnect ==
  /\ ev.op = "broadcast"
  /\ ev.pc \in {"start", "send"}
  /\ \E c \in Range(ev.active_connections) \cap ev.dropped :
       ev' = [ev EXCEPT !.active_connections = disconnect(@, c)]
  /\ BroadcastRest

\* websocket_endpoint accepts a new client.
Connect ==
  /\ ev.op = "broadcast"
  /\ ev.pc \in {"start", "send"}
  /\ ev.connected < MaxClients
  /\ ev' = [ev EXCEPT !.connected = @ + 1,
                      !.active_connections = Append(@, ev.connected + 1)]
  /\ BroadcastRest

BroadcastNext ==
  BroadcastBegin \/ SendReturn \/ Drop \/ EndpointDisconnect \/ Connect

BroadcastSpec == BroadcastInit /\ [][BroadcastNext]_vars


\* -------------------------------------------------------------- the properties
\* C1: no controller places an order at a moment when the broker already holds
\* max_positions positions. Stated for the orders the broker accepts in a tick
\* in which every position fetch succeeded and the book changed only by the
\* tick's own orders, where Guardian ADD_DCA and DCA averaging both act.
C1_OrdersRespectCap ==
  (/\ ev.op = "place_order"
   /\ ev.ok
   /\ ev.fetched
   /\ ev.count = ev.snapshot + ev.placed)
    => /\ ev.count < max_positions
       /\ Len(positions) <= max_positions

C3_ConfidentDecisionIsOrdered ==
  (ev.op = "entry" /\ ~ev.error /\ ev.decision \in {"BUY", "SELL"}
     /\ ev.confidence >= 60 /\ ev.SL = None)
    => /\ ev.outcome \in {"placed", "rejected"}
       /\ ev.sl = IF ev.decision = "BUY" THEN ev.ask - 60 ELSE ev.bid + 60

\* C4: the Entry Controller goes for an order only if the tick's snapshot holds
\* no position, the decision is BUY or SELL and the confidence is >= 60; on
\* WAIT, a confidence below 60, a service error or a missing field (WAIT,
\* confidence 0) it places no order.
C4_EntryOnlyWhenFlatAndConfident ==
  [][\A t \in TaskIds :
       (tasks[t].pc = "e_ai" /\ tasks'[t].pc \notin {"e_ai", "cancelling"}) =>
         /\ ev'.op = "entry"
         /\ ev'.outcome \in {"raised", "placed", "rejected"} =>
              /\ Len(tasks[t].snap) = 0
              /\ ~ev'.error
              /\ ev'.decision \in {"BUY", "SELL"}
              /\ ev'.confidence >= 60
         /\ (ev'.error \/ ev'.decision = "WAIT" \/ ev'.confidence < 60) =>
              /\ ev'.outcome \in {"error", "declined"}
              /\ positions' = positions
         /\ positions' # positions => ev'.outcome = "placed"
    ]_vars

\* C4, a case: a BUY decision with confidence 59 on a flat account is declined.
C4_LowConfidenceDeclined ==
  /\ ev.op = "entry"
  /\ ev.outcome = "declined"
  /\ ev.decision = "BUY"
  /\ ev.confidence = 59
  /\ ev.snapshot = 0
  /\ positions = << >>

\* C5: while less than 5 minutes have passed since the detector saw a position
\* disappear with a negative profit, every invocation of the Entry Controller
\* returns without a request to the decision service and without an order;
\* otherwise the invocation goes on to the decision service.
C5_CooldownGate ==
  [][\A t \in TaskIds :
       (/\ tasks[t].pc = "entry"
        /\ tasks'[t].pc # "entry"
        /\ Len(tasks[t].snap) = 0
        /\ (_last_entry_check = None \/ _last_entry_check >= 900)) =>
         IF since_sl # None /\ since_sl < 300
         THEN /\ tasks'[t].pc = "sleep"
              /\ ev'.op = "cooldown"
              /\ positions' = positions
         ELSE /\ tasks'[t].pc = "e_ai"
              /\ ev'.op = "ai"
    ]_vars

\* C5, a case: the Entry Controller is turned away 150 seconds after a
\* stop-loss closure was detected.
C5_BlockedInsideWindow ==
  /\ ev.op = "cooldown"
  /\ since_sl = ClockStep
  /\ _last_sl_hit = ClockStep

\* C6: one cooldown window. A stop-loss closure sets the trigger to the moment
\* of its detection whatever the window held, so an open window always counts
\* from the latest closure; the Entry Controller clears the window on its
\* first invocation after expiry, and leaves a clear window clear; nothing
\* else touches it.
C6_OneCooldownWindow ==
  [][LET detection ==
           \E t \in TaskIds :
             /\ tasks[t].pc = "detect"
             /\ tasks'[t].pc = "det_emit"
             /\ Head(tasks[t].todo).profit < 0
         invocation ==
           \E t \in TaskIds :
             /\ tasks[t].pc = "entry"
             /\ tasks'[t].pc # "entry"
             /\ Len(tasks[t].snap) = 0
             /\ (_last_entry_check = None \/ _last_entry_check >= 900)
     IN /\ detection => _last_sl_hit' = 0
        /\ (invocation /\ _last_sl_hit = None) => _last_sl_hit' = None
        /\ (invocation /\ _last_sl_hit # None /\ _last_sl_hit >= 300) =>
             _last_sl_hit' = None
        /\ (invocation /\ _last_sl_hit # None /\ _last_sl_hit < 300) =>
             _last_sl_hit' = _last_sl_hit
        /\ _last_sl_hit # None => _last_sl_hit = since_sl
        /\ _last_sl_hit' # _last_sl_hit =>
             \/ detection
             \/ invocation
             \/ _last_sl_hit # None /\ _last_sl_hit' > _last_sl_hit
    ]_vars

\* C6, a case: a stop-loss closure is detected 150 seconds into an open window,
\* and the window counts from this closure.
C6_WindowRestarted ==
  /\ ev.op = "closed"
  /\ ev.close_type = "SL_HIT"
  /\ ev.window = ClockStep
  /\ _last_sl_hit = 0

\* C7: a run of the detector that returns has reported as closed exactly the
\* tickets tracked at its start that the snapshot does not hold, and leaves
\* the tracking map with exactly the snapshot's tickets, each with its
\* snapshot record.
C7_DetectorIsADiff ==
  [][\A t \in TaskIds :
       (tasks[t].pc = "detect" /\ tasks'[t].pc = "gates") =>
         LET C == tasks[t].snap
             tickets == {C[i].ticket : i \in 1..Len(C)}
         IN /\ tasks[t].reported = tasks[t].seen \ tickets
            /\ DOMAIN _previous_positions' = tickets
            /\ \A i \in 1..Len(C) : _previous_positions'[C[i].ticket] = C[i]
    ]_vars

\* C7, a case: a run that found two tickets tracked and one of them in the
\* snapshot has returned.
C7_OneOfTwoClosed ==
  \E t \in TaskIds :
    /\ tasks[t].pc = "gates"
    /\ Cardinality(tasks[t].seen) = 2
    /\ Cardinality(tasks[t].reported) = 1
    /\ Len(tasks[t].snap) = 1
    /\ DOMAIN _previous_positions = {tasks[t].snap[1].ticket}

\* C8: a closed ticket is reported TP_HIT when its last known profit is >= 0
\* and SL_HIT otherwise; the cooldown is armed when and only when the type is
\* SL_HIT, and a TP_HIT leaves the cooldown as it was.
C8_CloseTypeBySign ==
  [][\A t \in TaskIds :
       (tasks[t].pc = "detect" /\ tasks'[t].pc = "det_emit") =>
         LET profit == Head(tasks[t].todo).profit
         IN /\ ev'.op = "closed"
            /\ ev'.profit = profit
            /\ profit >= 0 =>
                 ev'.close_type = "TP_HIT" /\ _last_sl_hit' = _last_sl_hit
            /\ profit < 0 =>
                 ev'.close_type = "SL_HIT" /\ _last_sl_hit' = 0
    ]_vars

\* C8, a case: a position closed at a profit of exactly 0 is reported TP_HIT
\* while a cooldown window is open, and the window is left as it was.
C8_ZeroProfitIsTakeProfit ==
  /\ ev.op = "closed"
  /\ ev.profit = 0
  /\ ev.close_type = "TP_HIT"
  /\ ev.window # None
  /\ _last_sl_hit = ev.window

\* C9: start() is accepted only on a stopped engine and stop() only on a
\* running one; a refused call returns a failure and changes nothing: the
\* running flag, config.is_running, the driver task, the timers, the cooldown,
\* the tracking map, the drivers and the pending calls stay as they were.
C9_LifecycleGuards ==
  [][/\ ev'.op = "create_task" => ~_running /\ _running' /\ is_running'
     /\ ev'.op = "cancel" => _running /\ ~_running' /\ ~is_running'
     /\ (\E t \in TaskIds : tasks[t].pc = "none" /\ tasks'[t].pc # "none") =>
          ~_running /\ ev'.op = "create_task"
     /\ (_running' # _running \/ is_running' # is_running \/ _task' # _task) =>
          ev'.op \in {"create_task", "cancel"}
     /\ (ev'.op = "start" /\ ~ev'.ok /\ ev'.error = "Engine already running") =>
          _running /\ UNCHANGED << engineVars, tasks, calls, brokerVars >>
     /\ (ev'.op = "stop" /\ ~ev'.ok) =>
          ~_running /\ UNCHANGED << engineVars, tasks, calls, brokerVars >>
    ]_vars

\* C9, a case: start() has been refused while a tick of the running engine is
\* in flight.
C9_StartRefusedWhileRunning ==
  /\ ev.op = "start"
  /\ ~ev.ok
  /\ ev.error = "Engine already running"
  /\ _running
  /\ \E t \in TaskIds : InTick(t)

\* C10: under every interleaving of start(), stop() and the driver at their
\* awaits, at most one tick driver is alive (its task is not done).
C10_OneDriverAlive ==
  Cardinality({t \in TaskIds : Alive(t)}) <= 1

\* C11: a driver that stop() has cancelled does nothing more: its only step is
\* its end, which sends no order, modification, close or decision-service
\* request and leaves the book and the tracking dict as they are; and every
\* such operation of the engine is the step of a driver that is not cancelled,
\* taken while the engine is running.
C11_CancelledDriverIsSilent ==
  [][/\ \A t \in TaskIds :
          (tasks[t].pc = "cancelling" /\ tasks'[t] # tasks[t]) =>
            /\ tasks'[t] = NoTask
            /\ ev'.op = "none"
            /\ positions' = positions
            /\ _previous_positions' = _previous_positions
            /\ _last_sl_hit' = _last_sl_hit
     /\ ev'.op \in {"place_order", "modify", "close", "ai", "entry"} =>
          /\ _running
          /\ \E t \in TaskIds :
               /\ tasks[t].pc \notin {"none", "cancelling"}
               /\ tasks'[t] # tasks[t]
    ]_vars

\* C11, a case: stop() has cancelled a tick that was waiting for the guardian's
\* decision on an open position.
C11_StoppedInFlight ==
  /\ ev.op = "cancel"
  /\ ev.at = "g_ai"
  /\ Len(positions) > 0
  /\ ~_running
  /\ \E t \in TaskIds : tasks[t].pc = "cancelling"

\* C12: a tick whose price fetch fails is over at once: the driver sleeps, no
\* fetch and no controller has run, the tracking dict, the cooldown and both
\* timers are as they were, the book is untouched, and the driver's next step
\* is the price fetch of the next tick (or its end).
C12_PriceFailureSkipsTick ==
  [][/\ (ev'.op = "price" /\ ~ev'.ok) =>
          /\ UNCHANGED << engineVars, positions >>
          /\ \E t \in TaskIds :
               /\ tasks[t].pc \in {"new", "sleep"}
               /\ tasks' = [tasks EXCEPT ![t] = [NoTask EXCEPT !.pc = "sleep"]]
     /\ \A t \in TaskIds :
          (tasks[t].pc = "sleep" /\ tasks'[t] # tasks[t]) =>
            \/ ev'.op = "price"
            \/ tasks'[t].pc \in {"none", "cancelling"}
    ]_vars

\* C12, a case: the price fetch fails in a tick that follows one which tracked
\* an open position.
C12_PriceFailedWithTrackedPosition ==
  /\ ev.op = "price"
  /\ ~ev.ok
  /\ _previous_positions # << >>
  /\ positions # << >>
  /\ \E t \in TaskIds : tasks[t].pc = "sleep"

\* C13: no position that is still open at the broker is reported closed (nor,
\* with a negative profit, arms the cooldown, nor leaves the tracking dict),
\* and the Entry Controller asks the decision service only when the broker
\* holds no position: a position fetch that fails changes none of this.
C13_FetchFailureIsHarmless ==
  /\ ev.op = "closed" => ~HasTicket(ev.ticket)
  /\ (ev.op = "ai" /\ ev.kind = "entry") => positions = << >>

\* C14: a tick that fetched its price runs the detector, then the market and
\* session gates, then Auto-BEP, the Guardian, DCA and Entry, never going
\* back; the detector has run, and the tracking dict holds the snapshot, when
\* the gates are reached, whatever they answer; and when the market is closed
\* or, with the filter on, the session is not allowed, the tick ends at the
\* gates, before any controller.
C14_TickOrder ==
  [][\A t \in TaskIds :
       LET stage(pc) ==
             CASE pc = "bc_price" -> 0
               [] pc = "bc_positions" -> 1
               [] pc \in {"detect", "det_emit"} -> 2
               [] pc = "gates" -> 3
               [] pc \in {"bep", "bep_emit"} -> 4
               [] pc \in {"guardian", "g_ai", "g_emit"} -> 5
               [] pc \in {"dca", "dca_emit"} -> 6
               [] pc \in {"entry", "e_ai", "e_emit"} -> 7
               [] OTHER -> 8
           from == stage(tasks[t].pc)
           to == stage(tasks'[t].pc)
           C == tasks[t].snap
       IN /\ (from < 8 /\ to < 8) => (to = from \/ to = from + 1)
          /\ (from = 8 /\ to < 8) => to = 0
          /\ (from = 2 /\ to = 3) =>
               DOMAIN _previous_positions' = {C[i].ticket : i \in 1..Len(C)}
          /\ (from = 3 /\ to # 3) =>
               IF market_open /\ (FilterOn => session_allowed)
               THEN tasks'[t].pc = "bep"
               ELSE tasks'[t].pc = "sleep" /\ UNCHANGED << engineVars, positions >>
    ]_vars

\* C14, a case: with the market open, the session gate has ended a tick whose
\* detector recorded the open positions.
C14_SessionGateClosed ==
  /\ ev.op = "gate"
  /\ ~ev.open
  /\ market_open
  /\ ~session_allowed
  /\ positions # << >>
  /\ DOMAIN _previous_positions = {positions[i].ticket : i \in 1..Len(positions)}
  /\ \E t \in TaskIds : tasks[t].pc = "sleep"

\* C15 as stated: a tick that fetched its price and found an open position
\* does not end before Auto-BEP has been evaluated.
C15_BepInEveryTickWithPositions ==
  [][\A t \in TaskIds :
       (/\ auto_bep_enabled
        /\ tasks[t].pc \in {"detect", "det_emit", "gates"}
        /\ Len(tasks[t].snap) > 0)
         => tasks'[t].pc \in {"detect", "det_emit", "gates", "bep", "cancelling"}
    ]_vars

\* C15 as amended: a tick that fetched its price, passed the market and
\* session gates and found an open position evaluates Auto-BEP on every
\* position of the snapshot, whatever the guardian timer, the entry timer and
\* the cooldown hold: it goes from the gates to Auto-BEP, and leaves Auto-BEP
\* only when no position of the snapshot remains that is due.
C15_BepInEveryGatedTick ==
  [][\A t \in TaskIds :
       /\ (/\ tasks[t].pc = "gates"
           /\ tasks'[t].pc # "gates"
           /\ market_open
           /\ FilterOn => session_allowed)
            => /\ tasks'[t].pc = "bep"
               /\ tasks'[t].idx = 1
               /\ tasks'[t].snap = tasks[t].snap
       /\ (tasks[t].pc = "bep" /\ tasks'[t].pc = "guardian" /\ auto_bep_enabled)
            => \A j \in 1..Len(tasks[t].snap) :
                 j >= tasks[t].idx => ~BepDue(tasks[t].snap[j], tasks[t].price)
       /\ (tasks[t].pc = "bep" /\ tasks'[t].pc \in {"bep", "bep_emit"})
            => /\ ev'.op = "modify"
               /\ ev'.by = "bep"
               /\ tasks'[t].idx >= tasks[t].idx
    ]_vars

\* C15, a case: Auto-BEP has moved a stop in a tick in which the guardian
\* interval had not elapsed.
C15_BepWhileGuardianWaits ==
  /\ ev.op = "modify"
  /\ ev.by = "bep"
  /\ ev.ok
  /\ _last_guardian_check # None
  /\ _last_guardian_check < 300

\* C16: Auto-BEP, at each position of the snapshot in turn, moves the stop of
\* the first remaining position whose profit has reached the trigger and whose
\* stop is not yet at or past its entry price (a position without a stop
\* included, BUY or SELL) to the entry price, keeping its take-profit, and
\* modifies nothing when no such position remains.
C16_BepMovesEveryOwedStop ==
  [][\A t \in TaskIds :
       (/\ auto_bep_enabled
        /\ tasks[t].pc = "bep"
        /\ tasks'[t] # tasks[t]
        /\ tasks'[t].pc \in {"bep", "bep_emit", "guardian"})
         => LET snap == tasks[t].snap
                price == tasks[t].price
                profit(p) == IF p.type = "BUY" THEN price.bid - p.open_price
                             ELSE p.open_price - price.ask
                behind(p) == IF p.type = "BUY" THEN p.sl < p.open_price
                             ELSE p.sl = 0 \/ p.sl > p.open_price
                owed == {j \in tasks[t].idx..Len(snap) :
                           profit(snap[j]) >= auto_bep_pips /\ behind(snap[j])}
            IN IF owed = {}
               THEN tasks'[t].pc = "guardian" /\ ev'.op # "modify"
               ELSE LET p == snap[CHOOSE j \in owed : \A m \in owed : j <= m]
                    IN /\ ev'.op = "modify"
                       /\ ev'.by = "bep"
                       /\ ev'.ticket = p.ticket
                       /\ ev'.sl = p.open_price
                       /\ ev'.tp = p.tp
    ]_vars

\* C17: Auto-BEP is idempotent. It never modifies a position whose stop-loss
\* already equals its entry price, whatever the price; a break-even
\* modification that succeeds leaves the stop-loss equal to the entry price
\* and the rest of the book as it was; and a position moved to break-even is
\* not due again at any quote, so that a second pass leaves the stop where
\* the first one put it.
C17_BepIsIdempotent ==
  [][/\ (ev'.op = "modify" /\ ev'.by = "bep")
          => \A i \in 1..Len(positions) :
               positions[i].ticket = ev'.ticket
                 => /\ positions[i].sl # positions[i].open_price
                    /\ ev'.sl = positions[i].open_price
                    /\ ev'.ok => positions' = [positions EXCEPT
                                                 ![i].sl = positions[i].open_price]
     /\ \A t \in TaskIds :
          (tasks[t].pc = "bep" /\ tasks'[t] # tasks[t] /\ ev'.op # "modify")
            => positions' = positions
     /\ \A t \in TaskIds :
          tasks[t].pc = "bep"
            => \A j \in 1..Len(tasks[t].snap), q \in Quotes :
                 LET p == tasks[t].snap[j]
                 IN ~BepDue([p EXCEPT !.sl = p.open_price], q)
    ]_vars

\* C17, a case: Auto-BEP has gone through a snapshot that holds a position in
\* profit beyond the trigger whose stop was moved to its entry price by an
\* earlier tick, and has left it alone.
C17_SecondPassLeftStop ==
  /\ acts = 0
  /\ \E t \in TaskIds :
       /\ tasks[t].pc = "guardian"
       /\ \E j \in 1..Len(tasks[t].snap) :
            LET p == tasks[t].snap[j]
            IN /\ p.sl = p.open_price
               /\ p.type = "BUY"
               /\ tasks[t].price.bid - p.open_price >= auto_bep_pips
               /\ \E i \in 1..Len(positions) :
                    /\ positions[i].ticket = p.ticket
                    /\ positions[i].sl = p.open_price

\* C18: when the DCA controller runs, the count it aims at is
\* min(maxPositions, 1 + floor(d / 20)) when d >= 20 and 1 otherwise, d being
\* the absolute distance in pips between the first position's entry and the
\* bid (BUY) or the ask (SELL) of the tick; it is the same at the price
\* mirrored about the entry; and the controller places an order only when the
\* snapshot holds fewer positions than that count.
C18_ExpectedCount ==
  [][\A t \in TaskIds :
       (/\ tasks[t].pc = "dca"
        /\ tasks'[t] # tasks[t]
        /\ Len(tasks[t].snap) > 0)
         => LET snap == tasks[t].snap
                price == tasks[t].price
                entry == snap[1].open_price
                d == IF snap[1].type = "BUY" THEN Abs(price.bid - entry)
                     ELSE Abs(price.ask - entry)
                expectedCount == IF d >= 20
                                 THEN Min(max_positions, 1 + (d \div 20))
                                 ELSE 1
                mirrored == [bid |-> 2 * entry - price.bid,
                             ask |-> 2 * entry - price.ask]
            IN /\ expected_positions(snap, price) = expectedCount
               /\ expected_positions(snap, mirrored) = expectedCount
               /\ ev'.op = "place_order" => Len(snap) < expectedCount
    ]_vars

\* C18, a case: with the price 60 pips or more against the first position the
\* DCA controller has brought the book to the cap.
C18_AdverseLadderAtCap ==
  /\ ev.op = "place_order"
  /\ ev.by = "dca"
  /\ ev.ok
  /\ Len(positions) = max_positions
  /\ positions[1].ticket = 1
  /\ ProfitAt(positions[1], quote) <= -60

\* C19: with a BUY as first position and the price held 45 pips above its
\* entry, under a guardian that holds: a tick whose snapshot holds fewer than
\* three positions places one DCA order, its first order, a BUY, which when
\* accepted adds one position to the book; a tick whose snapshot holds three
\* places none; and once the book holds three positions no order is placed
\* any more.
C19_LadderToThree ==
  [][/\ \A t \in TaskIds :
          (/\ tasks[t].pc = "dca"
           /\ tasks'[t] # tasks[t]
           /\ Len(tasks[t].snap) > 0
           /\ tasks[t].snap[1].type = "BUY"
           /\ tasks[t].price.bid - tasks[t].snap[1].open_price = 45)
            => IF Len(tasks[t].snap) < 3
               THEN /\ ev'.op = "place_order"
                    /\ ev'.by = "dca"
                    /\ ev'.side = "BUY"
                    /\ tasks[t].placed = 0
                    /\ ev'.ok => /\ Len(positions') = Len(positions) + 1
                                 /\ tasks'[t].pc = "dca_emit"
                    /\ ~ev'.ok => /\ positions' = positions
                                  /\ tasks'[t].pc = "entry"
               ELSE /\ ev'.op # "place_order"
                    /\ positions' = positions
                    /\ tasks'[t].pc = "entry"
     /\ (/\ Len(positions) >= 3
         /\ positions[1].type = "BUY"
         /\ quote.bid - positions[1].open_price = 45)
          => /\ ev'.op # "place_order"
             /\ Len(positions') = Len(positions)
    ]_vars

\* C19, a case: the ladder has reached three BUY positions at 45 pips, and a
\* later tick that found all three has gone through the DCA controller
\* without an order.
C19_ThirdTickAddsNothing ==
  /\ Len(positions) = 3
  /\ \A i \in 1..3 : positions[i].type = "BUY"
  /\ quote.bid - positions[1].open_price = 45
  /\ ev.op = "none"
  /\ \E t \in TaskIds :
       /\ tasks[t].pc = "entry"
       /\ Len(tasks[t].snap) = 3

\* C20: an order of the DCA controller is sent by a driver that stands at the
\* DCA step of its tick, with the side, the stop-loss and the take-profit of
\* the first position of the tick's snapshot, and with it the driver leaves
\* the DCA step, accepted or rejected; an order of the Entry Controller is
\* sent by a driver that waits for the entry decision, and with it the driver
\* leaves the entry step; a rejected order leaves the book as it was; and no
\* driver comes back to a controller that it has left in this tick.
C20_OneAttemptPerController ==
  [][/\ (ev'.op = "place_order" /\ ev'.by = "dca")
          => \E t \in TaskIds :
               /\ tasks[t].pc = "dca"
               /\ tasks' = [tasks EXCEPT ![t] =
                              IF ev'.ok
                              THEN [@ EXCEPT !.pc = "dca_emit", !.placed = @ + 1]
                              ELSE [@ EXCEPT !.pc = "entry"]]
               /\ ev'.side = tasks[t].snap[1].type
               /\ ev'.sl = tasks[t].snap[1].sl
               /\ ev'.tp = tasks[t].snap[1].tp
               /\ IF ev'.ok
                  THEN /\ Len(positions') = Len(positions) + 1
                       /\ positions'[Len(positions')].type = ev'.side
                       /\ positions'[Len(positions')].sl = ev'.sl
                       /\ positions'[Len(positions')].tp = ev'.tp
                  ELSE positions' = positions
     /\ (ev'.op = "entry" /\ ev'.outcome \in {"placed", "rejected"})
          => \E t \in TaskIds :
               /\ tasks[t].pc = "e_ai"
               /\ tasks'[t].pc = IF ev'.outcome = "placed" THEN "e_emit" ELSE "sleep"
               /\ ev'.outcome = "rejected" => positions' = positions
     /\ \A t \in TaskIds :
          /\ tasks'[t].pc = "dca" => tasks[t].pc \in {"guardian", "dca"}
          /\ (tasks[t].pc = "dca" /\ tasks'[t].pc = "dca") => tasks'[t] = tasks[t]
          /\ tasks'[t].pc = "e_ai" => tasks[t].pc \in {"entry", "e_ai"}
          /\ tasks'[t].pc = "entry" => tasks[t].pc \in {"dca", "dca_emit", "entry"}
    ]_vars

\* C20, a case: the broker has rejected the DCA order of a tick, and the
\* driver has gone on to the entry step with the book as it was.
C20_RejectedDcaOrder ==
  /\ ev.op = "place_order"
  /\ ev.by = "dca"
  /\ ~ev.ok
  /\ ev.snapshot < max_positions
  /\ Len(positions) = ev.count
  /\ \E t \in TaskIds : tasks[t].pc = "entry" /\ Len(tasks[t].snap) = ev.snapshot

\* C21: a Guardian MODIFY_SL that the broker accepts leaves the take-profit of
\* every position as it was, and a MODIFY_TP leaves the stop-loss of every
\* position as it was, whatever new_tp and new_sl the decision carries; both
\* touch no position but the guarded one.
C21_ModifyKeepsOtherField ==
  [][(ev'.op = "modify" /\ ev'.by \in {"MODIFY_SL", "MODIFY_TP"} /\ ev'.ok)
       => /\ Len(positions') = Len(positions)
          /\ \A i \in 1..Len(positions) :
               /\ positions'[i].ticket = positions[i].ticket
               /\ positions[i].ticket # ev'.ticket => positions'[i] = positions[i]
               /\ ev'.by = "MODIFY_SL" => positions'[i].tp = positions[i].tp
               /\ ev'.by = "MODIFY_TP" => positions'[i].sl = positions[i].sl
    ]_vars

\* C22: an order of a Guardian ADD_DCA is sent by a driver that waits for the
\* decision on a position, has that position's side, SL and TP, at the base
\* lot, and is sent only when the count that the fetch of that moment returns
\* (the book's, or 0 when the fetch fails) is below max_positions; with it
\* the driver goes on, so that one decision sends one order; accepted, it
\* adds one position of that side with that SL and TP, rejected, it leaves
\* the book as it was. An ADD_DCA at a count at or above the cap is skipped
\* and changes neither the engine's state nor the book.
C22_GuardianAddDca ==
  [][/\ (ev'.op = "place_order" /\ ev'.by = "guardian")
          => \E t \in TaskIds :
               /\ tasks[t].pc = "g_ai"
               /\ tasks' = [tasks EXCEPT ![t] =
                              IF ev'.ok
                              THEN [@ EXCEPT !.pc = "g_emit", !.placed = @ + 1]
                              ELSE GuardianOn(t)]
               /\ ev'.side = Guarded(t).type
               /\ ev'.sl = Guarded(t).sl
               /\ ev'.tp = Guarded(t).tp
               /\ ev'.volume = "base"
               /\ (IF ev'.fetched THEN Len(positions) ELSE 0) < max_positions
               /\ IF ev'.ok
                  THEN /\ Len(positions') = Len(positions) + 1
                       /\ positions'[Len(positions')].type = ev'.side
                       /\ positions'[Len(positions')].sl = ev'.sl
                       /\ positions'[Len(positions')].tp = ev'.tp
                  ELSE positions' = positions
     /\ (ev'.op = "guardian" /\ ev'.action = "ADD_DCA skipped")
          => /\ Len(positions) >= max_positions
             /\ UNCHANGED << engineVars, positions, next_ticket >>
             /\ \E t \in TaskIds :
                  /\ tasks[t].pc = "g_ai"
                  /\ tasks' = [tasks EXCEPT ![t] = GuardianOn(t)]
    ]_vars

\* C22, a case: the guardian has answered ADD_DCA while the book held
\* max_positions positions, and the action was skipped.
C22_AddDcaSkippedAtCap ==
  /\ ev.op = "guardian"
  /\ ev.action = "ADD_DCA skipped"
  /\ Len(positions) = max_positions
  /\ acts = 1

\* C23: a guardian cycle starts only in a tick whose snapshot holds a position
\* and only when no cycle has been stamped yet or 5 minutes (300 seconds) have
\* passed since the last stamp; a cycle asks for the decisions on the
\* positions of the snapshot one after the other, one each, in the
\* snapshot's order; whatever a decision leads to, the cycle goes on with the
\* next position; and the stamp is set when, and only when, the last position
\* of a cycle is done.
C23_GuardianCycle ==
  [][/\ \A t \in TaskIds :
          LET n == Len(tasks[t].snap)
          IN /\ (tasks[t].pc = "guardian" /\ tasks'[t].pc = "g_ai")
                  => /\ n > 0
                     /\ ev'.op = "ai"
                     /\ ev'.kind = "guardian"
                     /\ tasks'[t].idx \in 1..n
                     /\ ev'.ticket = tasks[t].snap[tasks'[t].idx].ticket
                     /\ IF tasks[t].idx = 0
                        THEN /\ tasks'[t].idx = 1
                             /\ \/ _last_guardian_check = None
                                \/ _last_guardian_check >= 300
                        ELSE tasks'[t].idx = tasks[t].idx
             /\ (tasks[t].pc = "g_ai" /\ tasks'[t] # tasks[t]
                   /\ tasks'[t].pc # "cancelling")
                  => \/ tasks'[t].pc = "g_emit" /\ tasks'[t].idx = tasks[t].idx
                     \/ tasks'[t].pc = "guardian" /\ tasks'[t].idx = tasks[t].idx + 1
             /\ (tasks[t].pc = "g_emit" /\ tasks'[t] # tasks[t]
                   /\ tasks'[t].pc # "cancelling")
                  => tasks'[t].pc = "guardian" /\ tasks'[t].idx = tasks[t].idx + 1
             /\ (tasks[t].pc = "guardian" /\ tasks'[t].pc = "dca")
                  => IF tasks[t].idx = 0
                     THEN /\ _last_guardian_check' = _last_guardian_check
                          /\ \/ n = 0
                             \/ /\ _last_guardian_check # None
                                /\ _last_guardian_check < 300
                     ELSE /\ tasks[t].idx = n + 1
                          /\ _last_guardian_check' = 0
     /\ (ev'.op = "ai" /\ ev'.kind = "guardian")
          => \E t \in TaskIds : tasks[t].pc = "guardian" /\ tasks'[t].pc = "g_ai"
     /\ (_last_guardian_check' = 0 /\ _last_guardian_check # 0)
          => \E t \in TaskIds :
               /\ tasks[t].pc = "guardian"
               /\ tasks'[t].pc = "dca"
               /\ tasks[t].idx = Len(tasks[t].snap) + 1
    ]_vars

\* C23, a case: a second guardian cycle has started, five minutes or more
\* after the stamp of the one before.
C23_SecondCycleAfterInterval ==
  /\ ev.op = "ai"
  /\ ev.kind = "guardian"
  /\ _last_guardian_check # None
  /\ _last_guardian_check >= 300
  /\ \E t \in TaskIds : tasks[t].pc = "g_ai" /\ tasks[t].idx = 1

\* C24: when _run_entry has asked the decision service and returned, on a
\* service error, on a WAIT or a low confidence, or on a rejected order, the
\* last-entry-check timestamp is the moment of that return, so that the next
\* request waits for the entry interval.
C24_EntryCheckStamped ==
  (ev.op = "entry" /\ ev.outcome \in {"error", "declined", "rejected"})
    => /\ _last_entry_check = 0
       /\ ~_should_check_entry

\* C25: the guardian sends a modification to the broker only for a decision
\* that carries the field its action is about: a MODIFY_SL with new_sl, a
\* MODIFY_TP with new_tp.
C25_IncompleteDecisionIsHold ==
  (ev.op = "modify" /\ ev.by \in {"MODIFY_SL", "MODIFY_TP"})
    => /\ ev.by = "MODIFY_SL" => ev.sl # None
       /\ ev.by = "MODIFY_TP" => ev.tp # None

\* C26: while the engine runs and is not stopped, every tick that a driver is
\* in, whatever failed in it, comes to its end with the driver back at the
\* scheduler's sleep, and as long as the run has ticks left the next tick
\* begins.
C26_SchedulerGoesOn ==
  /\ \A t \in TaskIds : InTick(t) ~> (tasks[t].pc = "sleep")
  /\ \A k \in 0..(MaxTicks - 1) : (ticks = k) ~> (ticks = k + 1)

\* C26, a case: the second tick has fetched its price after a first tick
\* whose price fetch or position fetch failed (it tracked none of the open
\* positions).
C26_TickAfterFailedFetch ==
  /\ ticks = 2
  /\ ev.op = "price"
  /\ ev.ok
  /\ positions # << >>
  /\ _previous_positions = << >>
  /\ next_ticket = Len(positions) + 1

\* C27: under the allow-list that holds only sydney the session test allows
\* the hour h exactly when h is in 21..23 or in 0..5; under any allow-list it
\* allows h exactly when the list names a session of the table (sydney 21-6,
\* asia 0-9, london 7-16, newyork 12-21, end excluded, sydney over midnight)
\* that holds h; and with the filter off the tick passes the gate whatever
\* the hour and the list.
C27_SessionGate ==
  ev.op = "session" =>
    LET h == ev.hour
        hours(name) ==
          IF name \in {"sydney", "SYDNEY"} THEN (21..23) \union (0..5)
          ELSE IF name = "asia" THEN 0..8
          ELSE IF name = "london" THEN 7..15
          ELSE IF name = "newyork" THEN 12..20
          ELSE {}
    IN /\ ev.allowed = {"sydney"} => (ev.in_session <=> h \in (21..23) \union (0..5))
       /\ ev.in_session <=> \E name \in ev.allowed : h \in hours(name)
       /\ ~ev.session_filter_enabled => ev.passes
       /\ ev.session_filter_enabled => (ev.passes <=> ev.in_session)
       /\ \E t \in TaskIds : tasks[t].pc = IF ev.passes THEN "bep" ELSE "sleep"

\* C27, a case: with the filter on and sydney alone allowed, the tick of an
\* hour after midnight has passed the gate.
C27_SydneyAfterMidnight ==
  /\ ev.op = "session"
  /\ ev.session_filter_enabled
  /\ ev.allowed = {"sydney"}
  /\ ev.hour = 5
  /\ ev.passes
  /\ \E t \in TaskIds : tasks[t].pc = "bep"

\* C28 as stated: for every base size, with balances c >= i > 0 the size is
\* not below the base and no size at a larger balance is below it; with
\* c < i or i <= 0 it is the size of zero doublings, the base rounded to two
\* decimals.
C28_SizeNeverBelowBase ==
  ev.op = "lot" =>
    IF ev.current >= ev.initial /\ ev.initial > 0
    THEN /\ ev.lot >= ev.base
         /\ \A c \in CurrentBalances :
              c >= ev.current
                => \A lot \in _get_dynamic_lot(ev.base, ev.initial, c) :
                     \/ lot >= ev.lot
                     \/ /\ times_doubled(ev.initial, c)
                             = times_doubled(ev.initial, ev.current)
                        /\ ev.lot \in _get_dynamic_lot(ev.base, ev.initial, c)
    ELSE ev.lot \in Round2(ev.base, 1)

\* C28 as amended: the same, for the base sizes that are whole hundredths of a
\* lot.
C28_SizeNeverBelowWholeBase ==
  (ev.op = "lot" /\ ev.base % 10 = 0) =>
    IF ev.current >= ev.initial /\ ev.initial > 0
    THEN /\ ev.lot >= ev.base
         /\ ev.lot \in Round2(ev.base * Pow(13, times_doubled(ev.initial, ev.current)),
                              Pow(10, times_doubled(ev.initial, ev.current)))
         /\ \A c \in CurrentBalances :
              c >= ev.current
                => \A lot \in _get_dynamic_lot(ev.base, ev.initial, c) :
                     \/ lot >= ev.lot
                     \/ /\ times_doubled(ev.initial, c)
                             = times_doubled(ev.initial, ev.current)
                        /\ ev.lot \in _get_dynamic_lot(ev.base, ev.initial, c)
    ELSE ev.lot = ev.base

\* C28, a case: a base of 0.05 lot after the balance has doubled five times
\* is sized 0.19 lot (0.05 * 1.3^5 = 0.1856...).
C28_FiveDoublings ==
  /\ ev.op = "lot"
  /\ ev.base = 50
  /\ ev.initial = 100
  /\ ev.current = 3200
  /\ ev.lot = 190

\* C29: whether the account fetch of a tick succeeds or fails, the tick goes
\* on to the position fetch with the snapshot that fetch returns, and neither
\* the engine's state nor the book depends on it; the account is broadcast
\* exactly when its fetch succeeded.
C29_AccountFailureGoesOn ==
  [][ev'.op = "account"
       => /\ ev'.broadcast <=> ev'.ok
          /\ UNCHANGED << engineVars, brokerVars, calls >>
          /\ \E t \in TaskIds :
               /\ tasks[t].pc = "bc_price"
               /\ tasks' = [tasks EXCEPT ![t] =
                              [@ EXCEPT !.pc = "bc_positions",
                                        !.snap = IF ev'.fetched THEN get_positions
                                                 ELSE << >>,
                                        !.placed = 0]]
    ]_vars

\* C29, a case: the account fetch of a tick has failed and the tick stands at
\* the broadcast of the positions it has fetched.
C29_TickGoesOnWithoutAccount ==
  /\ ev.op = "account"
  /\ ~ev.ok
  /\ ~ev.broadcast
  /\ ev.fetched
  /\ \E t \in TaskIds :
       /\ tasks[t].pc = "bc_positions"
       /\ Len(tasks[t].snap) > 0
       /\ tasks[t].snap = get_positions

\* C30: the ledger's initial balance is set once: a set_initial_balance call
\* made while it is zero sets it to the balance of the call, so the first
\* call with a nonzero balance fixes it; once it is nonzero no later
\* set_initial_balance, update_balance or record_trade call changes it, and
\* update_balance and record_trade never change it at all.
C30_InitialBalanceSetOnce ==
  [][ev'.op \in LedgerOps /\ ev.op \in LedgerOps
       => LET old == ev.tracker.initial_balance
              new == ev'.tracker.initial_balance
          IN /\ old # 0 => new = old
             /\ ev'.op = "set_initial_balance" /\ old = 0 => new = ev'.arg
             /\ ev'.op # "set_initial_balance" => new = old
    ]_vars

\* C30, a case: the ledger has taken three calls, its balance has been
\* updated to 300, and the last call was a set_initial_balance with that
\* balance while the initial balance was already fixed at 100: the initial
\* balance is still 100.
C30_LaterCallLeftInitialBalance ==
  /\ ev.op = "set_initial_balance"
  /\ ev.made = 3
  /\ ev.arg = 300
  /\ ev.tracker.initial_balance = 100
  /\ ev.tracker.current_balance = 300

\* C31: a call of _call_ai ends, and it ends with a decision or an error; it
\* makes at most 3 HTTP attempts, makes a further attempt only after a
\* rate-limit response, returns an error at once after any other failure,
\* returns the error for a missing key without any attempt when no key is
\* configured as it begins, and returns "Max retries exceeded" exactly when
\* 3 attempts were rate-limited.
C31_CallEnds ==
  /\ [](ev.op = "_call_ai"
         => /\ ev.posts <= 3
            /\ ev.pc # "done" => ev.limited = ev.posts /\ ev.result = "none"
            /\ ev.pc = "done"
                 => /\ ev.result \in Errors \cup {"decision"}
                    /\ ev.result = "decision" <=> ev.response = "ok"
                    /\ ~ev.keyed <=> ev.result = "No API key configured"
                    /\ ~ev.keyed => ev.posts = 0
                    /\ ev.result = "Max retries exceeded due to rate limiting"
                         <=> ev.limited = 3
                    /\ ev.response \notin {"none", "429"}
                         => ev.result = Returned(ev.response))
  /\ [][ev.op = "_call_ai" /\ ev'.posts > ev.posts /\ ev'.response # "429"
          => ev'.pc = "done" /\ ev'.result \in Errors \cup {"decision"}]_vars
  /\ <>(ev.op = "_call_ai" /\ ev.pc = "done")

\* C31, a case: three attempts were made, each was rate-limited, and the
\* call has returned the error for exceeded retries.
C31_ThreeRateLimits ==
  /\ ev.op = "_call_ai"
  /\ ev.pc = "done"
  /\ ev.posts = 3
  /\ ev.limited = 3
  /\ ev.result = "Max retries exceeded due to rate limiting"

\* C32: when a broadcast has returned, every client that was in the
\* connection list as the broadcast began has been sent the message unless
\* its own connection broke, every client whose send failed is out of the
\* connection list, and every client whose send succeeded and whose
\* connection holds is still in it.
C32_BroadcastReachesTheOthers ==
  ev.op = "broadcast" /\ ev.pc = "done"
    => /\ \A c \in Range(ev.listed) \ ev.dropped : c \in ev.sent
       /\ ev.failed \cap Range(ev.active_connections) = {}
       /\ (ev.sent \ ev.dropped) \subseteq Range(ev.active_connections)

\* C33: a ticket that has left the broker has had at most one close event,
\* and so has armed the cooldown at most once, whatever ticks, start() and
\* stop() calls there have been.
C33_ClosureReportedOnce ==
  \A k \in DOMAIN close_events :
    k \notin Range(TicketsOf(positions)) => close_events[k] <= 1

\* C34: whenever the DCA averaging controller places an order, the broker
\* holds at least one position at that moment and the first position of the
\* tick's snapshot, whose side, SL and TP the order copies, is among them.
C34_DcaReferenceStillOpen ==
  [][ev'.op = "place_order" /\ ev'.by = "dca" /\ ev'.ok
       => \E t \in TaskIds :
            /\ tasks[t].pc = "dca"
            /\ tasks'[t].pc = "dca_emit"
            /\ Len(positions) > 0
            /\ tasks[t].snap[1].ticket \in Range(TicketsOf(positions))
    ]_vars

\* C35: every modification Auto-BEP issues is for a position of the tick's
\* snapshot that the loop has not passed yet, whose snapshot stop-loss is on
\* the losing side of its entry price (below it for BUY, above it for SELL);
\* it asks for the entry price as stop-loss and the snapshot take-profit as
\* take-profit; when the broker accepts it no take-profit changes, no other
\* stop-loss changes, and the stop-loss of the position has not moved away
\* from the price; and the loop then passes that position, so that a tick
\* issues at most one modification per position.
C35_BepOnlyTightens ==
  [][/\ (ev'.op = "modify" /\ ev'.by = "bep")
          => \E t \in TaskIds :
               /\ tasks[t].pc = "bep"
               /\ \E j \in 1..Len(tasks[t].snap) :
                    LET p == tasks[t].snap[j]
                    IN /\ j >= tasks[t].idx
                       /\ p.ticket = ev'.ticket
                       /\ \A m \in 1..Len(tasks[t].snap) :
                            tasks[t].snap[m].ticket = p.ticket => m = j
                       /\ IF p.type = "BUY" THEN p.sl < p.open_price
                          ELSE p.sl > p.open_price
                       /\ ev'.sl = p.open_price
                       /\ ev'.tp = p.tp
                       /\ IF ev'.ok
                          THEN tasks'[t].pc = "bep_emit" /\ tasks'[t].idx = j
                          ELSE tasks'[t].pc = "bep" /\ tasks'[t].idx = j + 1
               /\ Len(positions') = Len(positions)
               /\ \A i \in 1..Len(positions) :
                    /\ positions'[i].tp = positions[i].tp
                    /\ positions'[i].ticket = positions[i].ticket
                    /\ positions[i].ticket # ev'.ticket \/ ~ev'.ok
                         => positions'[i].sl = positions[i].sl
                    /\ positions[i].ticket = ev'.ticket /\ ev'.ok
                         => /\ positions'[i].sl = positions[i].open_price
                            /\ IF positions[i].type = "BUY"
                               THEN positions[i].sl <= positions'[i].sl
                               ELSE positions[i].sl >= positions'[i].sl
     /\ \A t \in TaskIds :
          tasks[t].pc = "bep_emit" /\ tasks'[t].pc = "bep"
            => tasks'[t].idx = tasks[t].idx + 1 /\ positions' = positions
    ]_vars

\* C35, a case: Auto-BEP has moved the stop-loss of a position to its entry
\* price, the position has a take-profit, and the take-profit is the one of
\* the tick's snapshot.
C35_BepKeptTakeProfit ==
  /\ ev.op = "modify"
  /\ ev.by = "bep"
  /\ ev.ok
  /\ ev.tp # 0
  /\ \E i \in 1..Len(positions) :
       /\ positions[i].ticket = ev.ticket
       /\ positions[i].tp = ev.tp
       /\ positions[i].sl = positions[i].open_price

\* C36: at every await point config.is_running equals the engine's running
\* flag, and while the flag is true the task the engine holds is a driver
\* that has not finished and has not been cancelled; a driver ends only when
\* the running flag is false or after stop() has cancelled it.
C36_RunningHasDriver ==
  /\ [](/\ is_running = _running
        /\ _running => /\ _task \in TaskIds
                       /\ tasks[_task].pc \notin {"none", "cancelling"})
  /\ [][\A t \in TaskIds :
          tasks[t].pc # "none" /\ tasks'[t].pc = "none"
            => ~_running \/ tasks[t].pc = "cancelling"]_vars

\* C36, a case: start() was accepted while a stop() still awaits the driver
\* it has cancelled; the engine runs, and the driver of the new start() is in
\* its first tick.
C36_RestartDuringStop ==
  /\ _running
  /\ is_running
  /\ \E c \in CallIds :
       /\ calls[c].op = "stop"
       /\ calls[c].pc = "await_task"
       /\ calls[c].tsk # _task
       /\ tasks[calls[c].tsk].pc = "cancelling"
  /\ InTick(_task)

\* C37: after any sequence of ledger calls and win-rate syncs the tracker's
\* total_trades is total_wins + total_losses; a recorded trade with profit
\* >= 0 adds exactly one win and no loss, one with profit < 0 exactly one loss
\* and no win.
C37_TradesAreWinsPlusLosses ==
  /\ [](ev.op \in LedgerOps
          => ev.tracker.total_trades
               = ev.tracker.total_wins + ev.tracker.total_losses)
  /\ [][ev.op \in LedgerOps /\ ev'.op = "record_trade"
          => LET won == IF ev'.arg >= 0 THEN 1 ELSE 0
             IN /\ ev'.tracker.total_wins = ev.tracker.total_wins + won
                /\ ev'.tracker.total_losses = ev.tracker.total_losses + (1 - won)
                /\ ev'.tracker.total_trades = ev.tracker.total_trades + 1
    ]_vars

\* C37, a case: a sync has set the totals to the two winning exits of the
\* broker's history, and a losing trade was recorded after it: three trades,
\* two wins, one loss, and one trade in today's entry.
C37_LossRecordedAfterSync ==
  /\ ev.op = "record_trade"
  /\ ev.arg < 0
  /\ ev.tracker.total_trades = 3
  /\ ev.tracker.total_wins = 2
  /\ ev.tracker.total_losses = 1
  /\ Len(ev.tracker.history) = 1
  /\ ev.tracker.history[1].trades_count = 1

\* C38: after any sequence of analyze_entry and guardian_check calls the
\* reasoning history holds at most 100 entries, and they are the last
\* entries of all that were ever logged, in the order of the calls; every
\* call, whether the decision service returned a decision or an error, adds
\* exactly one entry, its own, at the end.
C38_HistoryIsLastHundred ==
  /\ [](ev.op \in {"brain", "analyze_entry", "guardian_check"}
          => LET h == ev.reasoning_history
                 n == Len(ev.log)
             IN /\ Len(h) <= 100
                /\ Len(h) = IF n < 100 THEN n ELSE 100
                /\ \A i \in 1 .. Len(h) : h[i] = ev.log[n - Len(h) + i])
  /\ [][ev'.op \in {"analyze_entry", "guardian_check"}
          => LET h == ev.reasoning_history
                 g == ev'.reasoning_history
             IN /\ Len(ev'.log) = Len(ev.log) + 1
                /\ g[Len(g)].serial = Len(ev.log) + 1
                /\ g[Len(g)].type
                     = IF ev'.op = "analyze_entry" THEN "ENTRY" ELSE "GUARDIAN"
                /\ \A i \in 1 .. Len(g) - 1 : g[i] = h[Len(h) - (Len(g) - 1) + i]
                /\ Len(g) = IF Len(h) < 100 THEN Len(h) + 1 ELSE 100
    ]_vars

\* C38, a case: the history is full and has dropped its two oldest entries;
\* its last entry is the one of a guardian_check to which the decision
\* service returned an error, after an analyze_entry.
C38_FullHistoryDroppedOldest ==
  /\ ev.op = "guardian_check"
  /\ Len(ev.reasoning_history) = 100
  /\ ev.reasoning_history[1].serial = 3
  /\ ev.reasoning_history[100].result = "Max retries exceeded due to rate limiting"
  /\ ev.reasoning_history[99].type = "ENTRY"

====
